---- MODULE Spec2Model ----
(***************************************************************************)
(* Attendance back end: punch service, daily-summary aggregator and admin  *)
(* punch editor over a document store, with the metrics engine they call.  *)
(*                                                                         *)
(* Representation.                                                         *)
(*  - An instant is an integer number of milliseconds since 00:00 UTC of   *)
(*    a reference day 0.  The code stores instants as ISO-8601 UTC strings *)
(*    produced by toISOString(); on such strings localeCompare is the      *)
(*    order of the instants and new Date(s).toISOString() gives s back, so *)
(*    a stored string is represented by the instant it denotes.            *)
(*  - A calendar date 'YYYY-MM-DD' is the integer number of its day,       *)
(*    counted from the reference day.                                      *)
(*  - Hours (numbers with 2 decimals) are integers in units of 1/10000 h,  *)
(*    so that round2 and toHours are computed, not assumed.                *)
(*  - createdAt / updatedAt / voidedAt / voidReason are write-only         *)
(*    metadata that no operation reads; they are not part of the state.    *)
(***************************************************************************)
EXTENDS Integers, Sequences, FiniteSets, TLC

\* ------------------------------------------------------------------ bounds
\* Number of attendance documents the store ever creates, in Spec and
\* SpecConc, and in SpecDay.
MaxRecords == 2
MaxRecordsDay == 3
\* Number of service calls started in one behaviour of Spec, SpecDay, SpecConc.
MaxCalls == 4
MaxCallsDay == 7
MaxCallsConc == 3
MaxCallsEdits == 6
MaxCallsLive == 6
MaxCallsAdmin == 3
MaxCallsMove == 5
MaxCallsStatus == 4

\* ---------------------------------------------------------- program values
NULL == -1
VOIDED == -2
\* a query parameter supplied as the empty string
EMPTY == -3

MANILA_OFFSET_MS == 28800000
MS_PER_HOUR == 3600000
MS_PER_MIN == 60000
MS_PER_DAY == 86400000
\* Hour values are kept in units of 1/10000 hour; a number with two decimals
\* is a multiple of HOUR_CENT.
HOUR_CENT == 100

Users == {"u1", "u2"}
Tasks == {1, 2}

\* 'HH:MM' strings as <<hour, minute>>
HHMM(h, mi) == <<h, mi>>
DefaultSchedule == [start |-> HHMM(9, 0), end |-> HHMM(18, 0)]
NoSchedule == [start |-> <<>>, end |-> <<>>]

\* Instants the clock passes through and an administrator may type in.
\* Local (UTC+8) reading:  day 1 09:30, day 1 12:00, day 1 19:00,
\*                         day 2 02:00 (still day 1 in UTC).
ClockInstants ==
    << 25 * MS_PER_HOUR + 30 * MS_PER_MIN,
       28 * MS_PER_HOUR,
       35 * MS_PER_HOUR,
       42 * MS_PER_HOUR >>
Instants == {ClockInstants[i] : i \in 1..Len(ClockInstants)}

\* ------------------------------------------------------------ metrics engine
Max(a, b) == IF a >= b THEN a ELSE b
Min(a, b) == IF a <= b THEN a ELSE b

\* Date.UTC(y, mo - 1, d, h, mi, 0) for the date numbered `day`
DateUTC(day, h, mi) == day * MS_PER_DAY + h * MS_PER_HOUR + mi * MS_PER_MIN

\* Math.round(x / d) for d > 0: the nearest integer, halves towards +infinity
RoundDiv(x, d) == (2 * x + d) \div (2 * d)

\* getManilaDate reading the UTC date, the offset forgotten
getManilaDate_UtcDate(t) ==
    t \div MS_PER_DAY

getManilaDate(t) ==
    (t + MANILA_OFFSET_MS) \div MS_PER_DAY

manilaToUtcMs(day, hhmm) == DateUTC(day, hhmm[1], hhmm[2]) - MANILA_OFFSET_MS

dayAfter(day) == day + 1

dayBefore(day) == day - 1

overlap(aStart, aEnd, bStart, bEnd) ==
    Max(0, Min(aEnd, bEnd) - Max(aStart, bStart))

\* Math.round((ms / MS_PER_HOUR) * 100) / 100, in units of 1/10000 hour
toHours(ms) == RoundDiv(ms, MS_PER_HOUR \div HOUR_CENT) * HOUR_CENT

toMinutes(ms) == RoundDiv(ms, MS_PER_MIN)

\* Math.round(n * 100) / 100 on a value in units of 1/10000 hour
round2(n) == RoundDiv(n, HOUR_CENT) * HOUR_CENT

\* the night-differential scan: while (true) { ... }
RECURSIVE ndScan(_, _, _)
ndScan(piMs, poMs, ndDay) ==
    LET windowStart == manilaToUtcMs(ndDay, HHMM(22, 0))
        windowEnd == manilaToUtcMs(dayAfter(ndDay), HHMM(6, 0))
    IN  IF windowStart >= poMs
        THEN 0
        ELSE overlap(piMs, poMs, windowStart, windowEnd)
             + ndScan(piMs, poMs, dayAfter(ndDay))

\* computeMetrics without the cap of punchOut at the end of the work date
computeMetrics_NoDayCap(punchIn, punchOut, schedule) ==
    LET workDate == getManilaDate(punchIn)
        piMs == punchIn
        poMs == punchOut
        schedStartMs == manilaToUtcMs(workDate, schedule.start)
        schedEndMs == manilaToUtcMs(workDate, schedule.end)
        lateMs == Max(0, piMs - schedStartMs)
        undertimeMs == IF poMs < schedEndMs
                       THEN Max(0, schedEndMs - Max(poMs, schedStartMs))
                       ELSE 0
        regularMs == overlap(piMs, poMs, schedStartMs, schedEndMs)
        otMs == Max(0, poMs - Max(piMs, schedEndMs))
        ndMs == ndScan(piMs, poMs, dayBefore(workDate))
    IN  [ workDate |-> workDate,
          regularHours |-> toHours(regularMs),
          overtimeHours |-> toHours(otMs),
          nightDiffHours |-> toHours(ndMs),
          lateMinutes |-> toMinutes(lateMs),
          undertimeMinutes |-> toMinutes(undertimeMs),
          totalWorkedHours |-> toHours(regularMs + otMs) ]

\* computeMetrics counting regular time from punchIn, not from the later of
\* punchIn and the schedule start
computeMetrics_EarlyArrivalPads(punchIn, punchOut, schedule) ==
    LET workDate == getManilaDate(punchIn)
        piMs == punchIn
        endOfWorkDayMs == manilaToUtcMs(dayAfter(workDate), HHMM(0, 0)) - 1
        poMs == Min(punchOut, endOfWorkDayMs)
        schedStartMs == manilaToUtcMs(workDate, schedule.start)
        schedEndMs == manilaToUtcMs(workDate, schedule.end)
        lateMs == Max(0, piMs - schedStartMs)
        undertimeMs == IF poMs < schedEndMs
                       THEN Max(0, schedEndMs - Max(poMs, schedStartMs))
                       ELSE 0
        regularMs == Max(0, Min(poMs, schedEndMs) - piMs)
        otMs == Max(0, poMs - Max(piMs, schedEndMs))
        ndMs == ndScan(piMs, poMs, dayBefore(workDate))
    IN  [ workDate |-> workDate,
          regularHours |-> toHours(regularMs),
          overtimeHours |-> toHours(otMs),
          nightDiffHours |-> toHours(ndMs),
          lateMinutes |-> toMinutes(lateMs),
          undertimeMinutes |-> toMinutes(undertimeMs),
          totalWorkedHours |-> toHours(regularMs + otMs) ]

\* computeMetrics counting as regular all the time worked after the schedule
\* start, the schedule end forgotten
computeMetrics_RegularPastEnd(punchIn, punchOut, schedule) ==
    LET workDate == getManilaDate(punchIn)
        piMs == punchIn
        endOfWorkDayMs == manilaToUtcMs(dayAfter(workDate), HHMM(0, 0)) - 1
        poMs == Min(punchOut, endOfWorkDayMs)
        schedStartMs == manilaToUtcMs(workDate, schedule.start)
        schedEndMs == manilaToUtcMs(workDate, schedule.end)
        lateMs == Max(0, piMs - schedStartMs)
        undertimeMs == IF poMs < schedEndMs
                       THEN Max(0, schedEndMs - Max(poMs, schedStartMs))
                       ELSE 0
        regularMs == Max(0, poMs - Max(piMs, schedStartMs))
        otMs == Max(0, poMs - Max(piMs, schedEndMs))
        ndMs == ndScan(piMs, poMs, dayBefore(workDate))
    IN  [ workDate |-> workDate,
          regularHours |-> toHours(regularMs),
          overtimeHours |-> toHours(otMs),
          nightDiffHours |-> toHours(ndMs),
          lateMinutes |-> toMinutes(lateMs),
          undertimeMinutes |-> toMinutes(undertimeMs),
          totalWorkedHours |-> toHours(regularMs + otMs) ]

\* computeMetrics without the clamp of the overtime span at zero
computeMetrics_OvertimeUnclamped(punchIn, punchOut, schedule) ==
    LET workDate == getManilaDate(punchIn)
        piMs == punchIn
        endOfWorkDayMs == manilaToUtcMs(dayAfter(workDate), HHMM(0, 0)) - 1
        poMs == Min(punchOut, endOfWorkDayMs)
        schedStartMs == manilaToUtcMs(workDate, schedule.start)
        schedEndMs == manilaToUtcMs(workDate, schedule.end)
        lateMs == Max(0, piMs - schedStartMs)
        undertimeMs == IF poMs < schedEndMs
                       THEN Max(0, schedEndMs - Max(poMs, schedStartMs))
                       ELSE 0
        regularMs == overlap(piMs, poMs, schedStartMs, schedEndMs)
        otMs == poMs - Max(piMs, schedEndMs)
        ndMs == ndScan(piMs, poMs, dayBefore(workDate))
    IN  [ workDate |-> workDate,
          regularHours |-> toHours(regularMs),
          overtimeHours |-> toHours(otMs),
          nightDiffHours |-> toHours(ndMs),
          lateMinutes |-> toMinutes(lateMs),
          undertimeMinutes |-> toMinutes(undertimeMs),
          totalWorkedHours |-> toHours(regularMs + otMs) ]

\* computeMetrics without the clamp of the late span at zero
computeMetrics_LateUnclamped(punchIn, punchOut, schedule) ==
    LET workDate == getManilaDate(punchIn)
        piMs == punchIn
        endOfWorkDayMs == manilaToUtcMs(dayAfter(workDate), HHMM(0, 0)) - 1
        poMs == Min(punchOut, endOfWorkDayMs)
        schedStartMs == manilaToUtcMs(workDate, schedule.start)
        schedEndMs == manilaToUtcMs(workDate, schedule.end)
        lateMs == piMs - schedStartMs
        undertimeMs == IF poMs < schedEndMs
                       THEN Max(0, schedEndMs - Max(poMs, schedStartMs))
                       ELSE 0
        regularMs == overlap(piMs, poMs, schedStartMs, schedEndMs)
        otMs == Max(0, poMs - Max(piMs, schedEndMs))
        ndMs == ndScan(piMs, poMs, dayBefore(workDate))
    IN  [ workDate |-> workDate,
          regularHours |-> toHours(regularMs),
          overtimeHours |-> toHours(otMs),
          nightDiffHours |-> toHours(ndMs),
          lateMinutes |-> toMinutes(lateMs),
          undertimeMinutes |-> toMinutes(undertimeMs),
          totalWorkedHours |-> toHours(regularMs + otMs) ]

\* computeMetrics counting overtime from the schedule end even when the punch
\* started after it
computeMetrics_PhantomOvertime(punchIn, punchOut, schedule) ==
    LET workDate == getManilaDate(punchIn)
        piMs == punchIn
        endOfWorkDayMs == manilaToUtcMs(dayAfter(workDate), HHMM(0, 0)) - 1
        poMs == Min(punchOut, endOfWorkDayMs)
        schedStartMs == manilaToUtcMs(workDate, schedule.start)
        schedEndMs == manilaToUtcMs(workDate, schedule.end)
        lateMs == Max(0, piMs - schedStartMs)
        undertimeMs == IF poMs < schedEndMs
                       THEN Max(0, schedEndMs - Max(poMs, schedStartMs))
                       ELSE 0
        regularMs == overlap(piMs, poMs, schedStartMs, schedEndMs)
        otMs == Max(0, poMs - schedEndMs)
        ndMs == ndScan(piMs, poMs, dayBefore(workDate))
    IN  [ workDate |-> workDate,
          regularHours |-> toHours(regularMs),
          overtimeHours |-> toHours(otMs),
          nightDiffHours |-> toHours(ndMs),
          lateMinutes |-> toMinutes(lateMs),
          undertimeMinutes |-> toMinutes(undertimeMs),
          totalWorkedHours |-> toHours(regularMs + otMs) ]

\* computeMetrics measuring undertime from punchOut even when it is before the
\* schedule start
computeMetrics_UndertimeFromPunchOut(punchIn, punchOut, schedule) ==
    LET workDate == getManilaDate(punchIn)
        piMs == punchIn
        endOfWorkDayMs == manilaToUtcMs(dayAfter(workDate), HHMM(0, 0)) - 1
        poMs == Min(punchOut, endOfWorkDayMs)
        schedStartMs == manilaToUtcMs(workDate, schedule.start)
        schedEndMs == manilaToUtcMs(workDate, schedule.end)
        lateMs == Max(0, piMs - schedStartMs)
        undertimeMs == IF poMs < schedEndMs
                       THEN Max(0, schedEndMs - poMs)
                       ELSE 0
        regularMs == overlap(piMs, poMs, schedStartMs, schedEndMs)
        otMs == Max(0, poMs - Max(piMs, schedEndMs))
        ndMs == ndScan(piMs, poMs, dayBefore(workDate))
    IN  [ workDate |-> workDate,
          regularHours |-> toHours(regularMs),
          overtimeHours |-> toHours(otMs),
          nightDiffHours |-> toHours(ndMs),
          lateMinutes |-> toMinutes(lateMs),
          undertimeMinutes |-> toMinutes(undertimeMs),
          totalWorkedHours |-> toHours(regularMs + otMs) ]

\* computeMetrics taking the total from the whole span of the punch
computeMetrics_TotalFromSpan(punchIn, punchOut, schedule) ==
    LET workDate == getManilaDate(punchIn)
        piMs == punchIn
        endOfWorkDayMs == manilaToUtcMs(dayAfter(workDate), HHMM(0, 0)) - 1
        poMs == Min(punchOut, endOfWorkDayMs)
        schedStartMs == manilaToUtcMs(workDate, schedule.start)
        schedEndMs == manilaToUtcMs(workDate, schedule.end)
        lateMs == Max(0, piMs - schedStartMs)
        undertimeMs == IF poMs < schedEndMs
                       THEN Max(0, schedEndMs - Max(poMs, schedStartMs))
                       ELSE 0
        regularMs == overlap(piMs, poMs, schedStartMs, schedEndMs)
        otMs == Max(0, poMs - Max(piMs, schedEndMs))
        ndMs == ndScan(piMs, poMs, dayBefore(workDate))
    IN  [ workDate |-> workDate,
          regularHours |-> toHours(regularMs),
          overtimeHours |-> toHours(otMs),
          nightDiffHours |-> toHours(ndMs),
          lateMinutes |-> toMinutes(lateMs),
          undertimeMinutes |-> toMinutes(undertimeMs),
          totalWorkedHours |-> toHours(poMs - piMs) ]

\* computeMetrics starting the night-differential scan at the night of the work
\* date, the night before it skipped
computeMetrics_NightFromWorkDate(punchIn, punchOut, schedule) ==
    LET workDate == getManilaDate(punchIn)
        piMs == punchIn
        endOfWorkDayMs == manilaToUtcMs(dayAfter(workDate), HHMM(0, 0)) - 1
        poMs == Min(punchOut, endOfWorkDayMs)
        schedStartMs == manilaToUtcMs(workDate, schedule.start)
        schedEndMs == manilaToUtcMs(workDate, schedule.end)
        lateMs == Max(0, piMs - schedStartMs)
        undertimeMs == IF poMs < schedEndMs
                       THEN Max(0, schedEndMs - Max(poMs, schedStartMs))
                       ELSE 0
        regularMs == overlap(piMs, poMs, schedStartMs, schedEndMs)
        otMs == Max(0, poMs - Max(piMs, schedEndMs))
        ndMs == ndScan(piMs, poMs, workDate)
    IN  [ workDate |-> workDate,
          regularHours |-> toHours(regularMs),
          overtimeHours |-> toHours(otMs),
          nightDiffHours |-> toHours(ndMs),
          lateMinutes |-> toMinutes(lateMs),
          undertimeMinutes |-> toMinutes(undertimeMs),
          totalWorkedHours |-> toHours(regularMs + otMs) ]

computeMetrics(punchIn, punchOut, schedule) ==
    LET workDate == getManilaDate(punchIn)
        piMs == punchIn
        endOfWorkDayMs == manilaToUtcMs(dayAfter(workDate), HHMM(0, 0)) - 1
        poMs == Min(punchOut, endOfWorkDayMs)
        schedStartMs == manilaToUtcMs(workDate, schedule.start)
        schedEndMs == manilaToUtcMs(workDate, schedule.end)
        lateMs == Max(0, piMs - schedStartMs)
        undertimeMs == IF poMs < schedEndMs
                       THEN Max(0, schedEndMs - Max(poMs, schedStartMs))
                       ELSE 0
        regularMs == overlap(piMs, poMs, schedStartMs, schedEndMs)
        otMs == Max(0, poMs - Max(piMs, schedEndMs))
        ndMs == ndScan(piMs, poMs, dayBefore(workDate))
    IN  [ workDate |-> workDate,
          regularHours |-> toHours(regularMs),
          overtimeHours |-> toHours(otMs),
          nightDiffHours |-> toHours(ndMs),
          lateMinutes |-> toMinutes(lateMs),
          undertimeMinutes |-> toMinutes(undertimeMs),
          totalWorkedHours |-> toHours(regularMs + otMs) ]

\* --------------------------------------------------------------------- state
VARIABLES
    attendance,     \* collection 'attendance': document id -> record
    dailySummary,   \* collection 'dailySummary': <<uid, workDate>> -> summary
    users,          \* collection 'users': uid -> profile
    idPool,         \* attendance ids the store can hand out
    usedIds,        \* attendance ids the store has handed out so far
    clock,          \* index into ClockInstants of the current instant
    task,           \* per request task: position, locals, last result
    calls           \* number of service calls started

vars == <<attendance, dailySummary, users, idPool, usedIds, clock, task, calls>>

\* metrics: null / a missing document
NullMetrics == [null |-> TRUE]
NoDoc == [missing |-> TRUE]
NoProfile == [exists |-> FALSE, schedule |-> NoSchedule, timezone |-> ""]

hasMetrics(r) == r.metrics # NullMetrics

\* new Date()
Now == ClockInstants[clock]

\* `${uid}_${workDate}`
summaryId(uid, workDate) == <<uid, workDate>>

\* ------------------------------------------------------- persistence port
\* A query returns documents in document-id order.
RECURSIVE IdSeq(_)
IdSeq(S) ==
    IF S = {} THEN <<>>
    ELSE LET m == CHOOSE x \in S : \A y \in S : x <= y
         IN  <<m>> \o IdSeq(S \ {m})

docExists(coll, id) == id \in DOMAIN coll

docSet(coll, id, doc) ==
    [k \in DOMAIN coll \cup {id} |-> IF k = id THEN doc ELSE coll[k]]

docDelete(coll, id) == [k \in DOMAIN coll \ {id} |-> coll[k]]

\* the open-punch query comparing punchOut with the wrong sentinel
openPunchQuery_WrongSentinel(att, uid) ==
    LET hits == IdSeq({id \in DOMAIN att :
                          att[id].uid = uid /\ att[id].punchOut = VOIDED})
    IN  SubSeq(hits, 1, Min(1, Len(hits)))

\* the open-punch query without its uid filter
openPunchQuery_AnyUser(att, uid) ==
    LET hits == IdSeq({id \in DOMAIN att :
                          att[id].punchOut = NULL})
    IN  SubSeq(hits, 1, Min(1, Len(hits)))

\* .where('uid', '==', uid).where('punchOut', '==', null).limit(1)
openPunchQuery(att, uid) ==
    LET hits == IdSeq({id \in DOMAIN att :
                          att[id].uid = uid /\ att[id].punchOut = NULL})
    IN  SubSeq(hits, 1, Min(1, Len(hits)))

\* .where('uid', '==', uid) then map + filter of rebuildDailySummary
dayRecordsOf(att, uid, workDate) ==
    LET ids == IdSeq({id \in DOMAIN att : att[id].uid = uid})
        all == [i \in 1..Len(ids) |->
                   [id |-> ids[i], punchIn |-> att[ids[i]].punchIn,
                    punchOut |-> att[ids[i]].punchOut,
                    metrics |-> att[ids[i]].metrics]]
    IN  SelectSeq(all, LAMBDA r :
            /\ hasMetrics(r)
            /\ r.metrics.workDate = workDate
            /\ r.punchOut # NULL
            /\ r.punchOut # VOIDED)

\* ------------------------------------------------------ summary aggregation
\* [...dayRecords].sort((a, b) => a.punchIn.localeCompare(b.punchIn)): stable
RECURSIVE insertByPunchIn(_, _)
insertByPunchIn(sorted, r) ==
    IF sorted = <<>> THEN <<r>>
    ELSE IF sorted[Len(sorted)].punchIn <= r.punchIn
         THEN Append(sorted, r)
         ELSE Append(insertByPunchIn(SubSeq(sorted, 1, Len(sorted) - 1), r),
                     sorted[Len(sorted)])

RECURSIVE sortByPunchIn(_)
sortByPunchIn(recs) ==
    IF recs = <<>> THEN <<>>
    ELSE insertByPunchIn(sortByPunchIn(SubSeq(recs, 1, Len(recs) - 1)),
                         recs[Len(recs)])

ZeroTotals ==
    [ regularHours |-> 0, overtimeHours |-> 0, nightDiffHours |-> 0,
      lateMinutes |-> 0, undertimeMinutes |-> 0, totalWorkedHours |-> 0 ]

\* sorted.reduce((acc, r) => ({...}), {zeros}) of rebuildDailySummary
RECURSIVE reduceTotals(_, _, _, _)
reduceTotals(sorted, n, first, last) ==
    IF n = 0 THEN ZeroTotals
    ELSE LET acc == reduceTotals(sorted, n - 1, first, last)
             r == sorted[n]
         IN  [ regularHours |->
                   round2(acc.regularHours + r.metrics.regularHours),
               overtimeHours |->
                   round2(acc.overtimeHours + r.metrics.overtimeHours),
               nightDiffHours |->
                   round2(acc.nightDiffHours + r.metrics.nightDiffHours),
               totalWorkedHours |->
                   round2(acc.totalWorkedHours + r.metrics.totalWorkedHours),
               lateMinutes |-> first.metrics.lateMinutes,
               undertimeMinutes |-> last.metrics.undertimeMinutes ]

punchEntry(id, punchIn, punchOut) ==
    [attendanceId |-> id, punchIn |-> punchIn, punchOut |-> punchOut]

\* rebuildDailySummary taking undertimeMinutes from sorted[0]
rebuildDoc_UndertimeFromFirst(uid, workDate, dayRecords) ==
    LET sorted == sortByPunchIn(dayRecords)
        totals == reduceTotals(sorted, Len(sorted), sorted[1], sorted[1])
    IN  [ uid |-> uid, workDate |-> workDate,
          regularHours |-> totals.regularHours,
          overtimeHours |-> totals.overtimeHours,
          nightDiffHours |-> totals.nightDiffHours,
          lateMinutes |-> totals.lateMinutes,
          undertimeMinutes |-> totals.undertimeMinutes,
          totalWorkedHours |-> totals.totalWorkedHours,
          punches |-> [i \in 1..Len(dayRecords) |->
                          punchEntry(dayRecords[i].id, dayRecords[i].punchIn,
                                     dayRecords[i].punchOut)] ]

\* the document rebuildDailySummary writes for a non-empty dayRecords
rebuildDoc(uid, workDate, dayRecords) ==
    LET sorted == sortByPunchIn(dayRecords)
        totals == reduceTotals(sorted, Len(sorted),
                               sorted[1], sorted[Len(sorted)])
    IN  [ uid |-> uid, workDate |-> workDate,
          regularHours |-> totals.regularHours,
          overtimeHours |-> totals.overtimeHours,
          nightDiffHours |-> totals.nightDiffHours,
          lateMinutes |-> totals.lateMinutes,
          undertimeMinutes |-> totals.undertimeMinutes,
          totalWorkedHours |-> totals.totalWorkedHours,
          punches |-> [i \in 1..Len(dayRecords) |->
                          punchEntry(dayRecords[i].id, dayRecords[i].punchIn,
                                     dayRecords[i].punchOut)] ]

\* rebuildDailySummary without its early return on an empty day
rebuildWrite_NeverDeletes(sum, uid, workDate, dayRecords) ==
    IF Len(dayRecords) = 0
    THEN sum
    ELSE docSet(sum, summaryId(uid, workDate),
                rebuildDoc(uid, workDate, dayRecords))

\* rebuildDailySummary appending to the punches already in the summary, as
\* upsertDailySummary does
rebuildWrite_AppendsPunches(sum, uid, workDate, dayRecords) ==
    LET sid == summaryId(uid, workDate)
        doc == rebuildDoc(uid, workDate, dayRecords)
    IN  IF Len(dayRecords) = 0
        THEN docDelete(sum, sid)
        ELSE IF docExists(sum, sid)
        THEN docSet(sum, sid,
                    [doc EXCEPT !.punches = sum[sid].punches \o doc.punches])
        ELSE docSet(sum, sid, doc)

\* the write of rebuildDailySummary: delete when no record is left, else set
rebuildWrite(sum, uid, workDate, dayRecords) ==
    IF Len(dayRecords) = 0
    THEN docDelete(sum, summaryId(uid, workDate))
    ELSE docSet(sum, summaryId(uid, workDate),
                rebuildDoc(uid, workDate, dayRecords))

\* upsertDailySummary, first punch of the day: ref.set({...})
upsertFirstDoc(uid, metrics, entry) ==
    [ uid |-> uid, workDate |-> metrics.workDate,
      regularHours |-> metrics.regularHours,
      overtimeHours |-> metrics.overtimeHours,
      nightDiffHours |-> metrics.nightDiffHours,
      lateMinutes |-> metrics.lateMinutes,
      undertimeMinutes |-> metrics.undertimeMinutes,
      totalWorkedHours |-> metrics.totalWorkedHours,
      punches |-> <<entry>> ]

\* upsertDailySummary replacing lateMinutes with the new punch's value
upsertNextDoc_LateReplaced(cur, prev, metrics, entry) ==
    [ cur EXCEPT
        !.regularHours = round2(prev.regularHours + metrics.regularHours),
        !.overtimeHours = round2(prev.overtimeHours + metrics.overtimeHours),
        !.nightDiffHours =
            round2(prev.nightDiffHours + metrics.nightDiffHours),
        !.totalWorkedHours =
            round2(prev.totalWorkedHours + metrics.totalWorkedHours),
        !.lateMinutes = metrics.lateMinutes,
        !.undertimeMinutes = metrics.undertimeMinutes,
        !.punches = Append(prev.punches, entry) ]

\* upsertDailySummary writing the new entry alone as the punches list
upsertNextDoc_PunchesReset(cur, prev, metrics, entry) ==
    [ cur EXCEPT
        !.regularHours = round2(prev.regularHours + metrics.regularHours),
        !.overtimeHours = round2(prev.overtimeHours + metrics.overtimeHours),
        !.nightDiffHours =
            round2(prev.nightDiffHours + metrics.nightDiffHours),
        !.totalWorkedHours =
            round2(prev.totalWorkedHours + metrics.totalWorkedHours),
        !.lateMinutes = prev.lateMinutes,
        !.undertimeMinutes = metrics.undertimeMinutes,
        !.punches = <<entry>> ]

\* upsertDailySummary adding the new punch's undertime to the stored one
upsertNextDoc_UndertimeAdded(cur, prev, metrics, entry) ==
    [ cur EXCEPT
        !.regularHours = round2(prev.regularHours + metrics.regularHours),
        !.overtimeHours = round2(prev.overtimeHours + metrics.overtimeHours),
        !.nightDiffHours =
            round2(prev.nightDiffHours + metrics.nightDiffHours),
        !.totalWorkedHours =
            round2(prev.totalWorkedHours + metrics.totalWorkedHours),
        !.lateMinutes = prev.lateMinutes,
        !.undertimeMinutes = prev.undertimeMinutes + metrics.undertimeMinutes,
        !.punches = Append(prev.punches, entry) ]

\* upsertDailySummary, subsequent punch: ref.update({...}) over the stored
\* document `cur`, computed from the snapshot `prev` read earlier
upsertNextDoc(cur, prev, metrics, entry) ==
    [ cur EXCEPT
        !.regularHours = round2(prev.regularHours + metrics.regularHours),
        !.overtimeHours = round2(prev.overtimeHours + metrics.overtimeHours),
        !.nightDiffHours =
            round2(prev.nightDiffHours + metrics.nightDiffHours),
        !.totalWorkedHours =
            round2(prev.totalWorkedHours + metrics.totalWorkedHours),
        !.lateMinutes = prev.lateMinutes,
        !.undertimeMinutes = metrics.undertimeMinutes,
        !.punches = Append(prev.punches, entry) ]

\* ------------------------------------------------------------ request tasks
ErrOpenPunch == "You already have an open punch. Please punch out first."
ErrNoOpenPunch == "No open punch found. Please punch in first."
ErrNoProfile == "User profile not found"
ErrNoSchedule == "User schedule is not configured. Contact your administrator."
ErrCancelNotFound == "Punch record not found."
ErrForbidden == "Forbidden: This punch does not belong to you."
ErrCompleted ==
    "This punch is already completed. Use the admin edit endpoint to correct a completed punch."
ErrPunchNotFound == "Punch record not found"
ErrUserNotFound == "User not found"
\* RangeError of Date.prototype.toISOString on an Invalid Date
ErrInvalidTime == "RangeError: Invalid time value"
\* TypeError of computeMetrics reading schedule.start of undefined
ErrTypeError == "TypeError: Cannot read properties of undefined"
\* the store rejects update() of a document that does not exist
ErrStoreNotFound == "NOT_FOUND: No document to update"

ErrScheduleRequired ==
    "schedule.start and schedule.end are required (HH:MM format)"
ErrNothingToUpdate == "Provide at least one of schedule or timezone to update"

IdleTask ==
    [ pc |-> "idle", op |-> "none", uid |-> "none", id |-> 0,
      argIn |-> NULL, argOut |-> NULL, now |-> NULL,
      data |-> NoDoc, metrics |-> NullMetrics, workDate |-> NULL,
      dayRecords |-> <<>>, prev |-> NoDoc, updates |-> NoDoc,
      authorization |-> <<>>, token |-> <<>>, verify |-> NoDoc,
      user |-> NoDoc, status |-> 0, nextCalls |-> {},
      response |-> NoDoc, range |-> NoDoc, result |-> "none" ]

\* the call returns or throws `r`; what it read and computed is kept as the
\* record of the last call of the task
finish(tk, r) ==
    [tk EXCEPT !.pc = "idle", !.result = r, !.dayRecords = <<>>, !.prev = NoDoc]

CanStart(t) == task[t].pc = "idle"

\* the store can still hand out a fresh id to every punchIn about to add
HasFreeId ==
    Cardinality(usedIds)
      + Cardinality({t \in Tasks : task[t].pc = "punchIn:add"})
      < Cardinality(idPool)

newRecord(uid, now) ==
    [ uid |-> uid, punchIn |-> now, punchOut |-> NULL,
      metrics |-> NullMetrics, voided |-> FALSE, adminEdited |-> FALSE ]

\* ----- getPunchStatus(uid)
\* new Date().toISOString().slice(0, 10), read as the local date
todayUtc_ManilaDate(now) ==
    getManilaDate(now)

\* new Date().toISOString().slice(0, 10)
todayUtc(now) ==
    now \div MS_PER_DAY

\* { id: doc.id, ...doc.data() }; NoDoc stands for null
withId(coll, id) ==
    IF docExists(coll, id) THEN [id |-> id, data |-> coll[id]] ELSE NoDoc

StatusQuery(t, uid) ==
    /\ CanStart(t)
    /\ LET call == [IdleTask EXCEPT !.op = "getPunchStatus", !.uid = uid]
           openSnap == openPunchQuery(attendance, uid)
       IN  task' = [task EXCEPT ![t] =
                      [call EXCEPT !.pc = "status:summary",
                                   !.id = IF openSnap = <<>> THEN 0
                                          ELSE openSnap[1],
                                   !.data = IF openSnap = <<>> THEN NoDoc
                                            ELSE withId(attendance, openSnap[1])]]
    /\ calls' = calls + 1
    /\ UNCHANGED <<attendance, dailySummary, users, idPool, usedIds, clock>>

StatusSummaryGet(t) ==
    /\ task[t].pc = "status:summary"
    /\ LET tk == [task[t] EXCEPT !.now = Now]
           sid == summaryId(tk.uid, todayUtc(tk.now))
           todaySummary == withId(dailySummary, sid)
       IN  task' = [task EXCEPT ![t] =
                      finish([tk EXCEPT !.response =
                                [ punchedIn |-> tk.data # NoDoc,
                                  openPunch |-> tk.data,
                                  todaySummary |-> todaySummary ]],
                             "ok")]
    /\ UNCHANGED <<attendance, dailySummary, users, idPool, usedIds, clock, calls>>

\* ----- punchIn(uid)
PunchInQuery(t, uid) ==
    /\ CanStart(t)
    /\ LET call == [IdleTask EXCEPT !.op = "punchIn", !.uid = uid]
           open == openPunchQuery(attendance, uid)
       IN  /\ open # <<>> \/ HasFreeId
           /\ task' = [task EXCEPT ![t] =
                         IF open # <<>>
                         THEN finish(call, ErrOpenPunch)
                         ELSE [call EXCEPT !.pc = "punchIn:add", !.now = Now]]
    /\ calls' = calls + 1
    /\ UNCHANGED <<attendance, dailySummary, users, idPool, usedIds, clock>>

\* punchIn repeating its open-punch check in one step with the add
PunchInAdd_Guarded(t) ==
    /\ task[t].pc = "punchIn:add"
    /\ IF openPunchQuery(attendance, task[t].uid) # <<>>
       THEN /\ task' = [task EXCEPT ![t] = finish(@, ErrOpenPunch)]
            /\ UNCHANGED <<attendance, usedIds>>
       ELSE \E id \in idPool \ usedIds :
              /\ attendance' =
                     docSet(attendance, id, newRecord(task[t].uid, task[t].now))
              /\ usedIds' = usedIds \cup {id}
              /\ task' = [task EXCEPT ![t] = finish([@ EXCEPT !.id = id], "ok")]
    /\ UNCHANGED <<dailySummary, users, idPool, clock, calls>>

PunchInAdd(t) ==
    /\ task[t].pc = "punchIn:add"
    /\ \E id \in idPool \ usedIds :
          /\ attendance' =
                 docSet(attendance, id, newRecord(task[t].uid, task[t].now))
          /\ usedIds' = usedIds \cup {id}
          /\ task' = [task EXCEPT ![t] = finish([@ EXCEPT !.id = id], "ok")]
    /\ UNCHANGED <<dailySummary, users, idPool, clock, calls>>

\* ----- punchOut(uid)
PunchOutQuery(t, uid) ==
    /\ CanStart(t)
    /\ LET call == [IdleTask EXCEPT !.op = "punchOut", !.uid = uid]
           openSnap == openPunchQuery(attendance, uid)
       IN  task' = [task EXCEPT ![t] =
                      IF openSnap = <<>>
                      THEN finish(call, ErrNoOpenPunch)
                      ELSE [call EXCEPT !.pc = "punchOut:user",
                                        !.id = openSnap[1],
                                        !.data = attendance[openSnap[1]],
                                        !.now = Now]]
    /\ calls' = calls + 1
    /\ UNCHANGED <<attendance, dailySummary, users, idPool, usedIds, clock>>

\* punchOut testing the schedule before the existence of the profile
PunchOutUser_ScheduleFirst(t) ==
    /\ task[t].pc = "punchOut:user"
    /\ LET tk == task[t]
           userDoc == users[tk.uid]
           schedule == userDoc.schedule
       IN  task' = [task EXCEPT ![t] =
                      IF schedule.start = <<>> \/ schedule.end = <<>>
                      THEN finish(tk, ErrNoSchedule)
                      ELSE IF ~userDoc.exists
                      THEN finish(tk, ErrNoProfile)
                      ELSE [tk EXCEPT
                              !.pc = "punchOut:update",
                              !.metrics = computeMetrics(tk.data.punchIn,
                                                         tk.now, schedule)]]
    /\ UNCHANGED <<attendance, dailySummary, users, idPool, usedIds, clock, calls>>

PunchOutUser(t) ==
    /\ task[t].pc = "punchOut:user"
    /\ LET tk == task[t]
           userDoc == users[tk.uid]
           schedule == userDoc.schedule
       IN  task' = [task EXCEPT ![t] =
                      IF ~userDoc.exists
                      THEN finish(tk, ErrNoProfile)
                      ELSE IF schedule.start = <<>> \/ schedule.end = <<>>
                      THEN finish(tk, ErrNoSchedule)
                      ELSE [tk EXCEPT
                              !.pc = "punchOut:update",
                              !.metrics = computeMetrics(tk.data.punchIn,
                                                         tk.now, schedule)]]
    /\ UNCHANGED <<attendance, dailySummary, users, idPool, usedIds, clock, calls>>

PunchOutUpdate(t) ==
    /\ task[t].pc = "punchOut:update"
    /\ IF docExists(attendance, task[t].id)
       THEN /\ attendance' = [attendance EXCEPT
                                ![task[t].id].punchOut = task[t].now,
                                ![task[t].id].metrics = task[t].metrics]
            /\ task' = [task EXCEPT ![t].pc = "punchOut:summaryGet"]
       ELSE /\ task' = [task EXCEPT ![t] = finish(@, ErrStoreNotFound)]
            /\ UNCHANGED attendance
    /\ UNCHANGED <<dailySummary, users, idPool, usedIds, clock, calls>>

\* upsertDailySummary: const snap = await ref.get()
PunchOutSummaryGet(t) ==
    /\ task[t].pc = "punchOut:summaryGet"
    /\ LET sid == summaryId(task[t].uid, task[t].metrics.workDate)
       IN  task' = [task EXCEPT
                      ![t].pc = "punchOut:summaryWrite",
                      ![t].prev = IF docExists(dailySummary, sid)
                                  THEN dailySummary[sid] ELSE NoDoc]
    /\ UNCHANGED <<attendance, dailySummary, users, idPool, usedIds, clock, calls>>

\* upsertDailySummary: ref.set(...) or ref.update(...)
PunchOutSummaryWrite(t) ==
    /\ task[t].pc = "punchOut:summaryWrite"
    /\ LET tk == task[t]
           sid == summaryId(tk.uid, tk.metrics.workDate)
           entry == punchEntry(tk.id, tk.data.punchIn, tk.now)
       IN  IF tk.prev = NoDoc
           THEN /\ dailySummary' =
                       docSet(dailySummary, sid,
                              upsertFirstDoc(tk.uid, tk.metrics, entry))
                /\ task' = [task EXCEPT ![t] = finish(@, "ok")]
           ELSE IF docExists(dailySummary, sid)
           THEN /\ dailySummary' =
                       docSet(dailySummary, sid,
                              upsertNextDoc(dailySummary[sid], tk.prev,
                                            tk.metrics, entry))
                /\ task' = [task EXCEPT ![t] = finish(@, "ok")]
           ELSE /\ task' = [task EXCEPT ![t] = finish(@, ErrStoreNotFound)]
                /\ UNCHANGED dailySummary
    /\ UNCHANGED <<attendance, users, idPool, usedIds, clock, calls>>

\* cancelOpenPunch testing punchOut before the owner
CancelGet_CompletedFirst(t, uid, attendanceId) ==
    /\ CanStart(t)
    /\ LET call == [IdleTask EXCEPT !.op = "cancelOpenPunch", !.uid = uid,
                                    !.id = attendanceId]
       IN  task' = [task EXCEPT ![t] =
                      IF ~docExists(attendance, attendanceId)
                      THEN finish(call, ErrCancelNotFound)
                      ELSE LET data == attendance[attendanceId]
                               got == [call EXCEPT !.data = data]
                           IN  IF data.punchOut # NULL
                               THEN finish(got, ErrCompleted)
                               ELSE IF data.uid # uid
                               THEN finish(got, ErrForbidden)
                               ELSE [got EXCEPT !.pc = "cancel:update"]]
    /\ calls' = calls + 1
    /\ UNCHANGED <<attendance, dailySummary, users, idPool, usedIds, clock>>

\* cancelOpenPunch voiding a record whatever its punchOut
CancelGet_NoCompletedCheck(t, uid, attendanceId) ==
    /\ CanStart(t)
    /\ LET call == [IdleTask EXCEPT !.op = "cancelOpenPunch", !.uid = uid,
                                    !.id = attendanceId]
       IN  task' = [task EXCEPT ![t] =
                      IF ~docExists(attendance, attendanceId)
                      THEN finish(call, ErrCancelNotFound)
                      ELSE LET data == attendance[attendanceId]
                               got == [call EXCEPT !.data = data]
                           IN  IF data.uid # uid
                               THEN finish(got, ErrForbidden)
                               ELSE IF FALSE
                               THEN finish(got, ErrCompleted)
                               ELSE [got EXCEPT !.pc = "cancel:update"]]
    /\ calls' = calls + 1
    /\ UNCHANGED <<attendance, dailySummary, users, idPool, usedIds, clock>>

\* ----- cancelOpenPunch(uid, attendanceId)
CancelGet(t, uid, attendanceId) ==
    /\ CanStart(t)
    /\ LET call == [IdleTask EXCEPT !.op = "cancelOpenPunch", !.uid = uid,
                                    !.id = attendanceId]
       IN  task' = [task EXCEPT ![t] =
                      IF ~docExists(attendance, attendanceId)
                      THEN finish(call, ErrCancelNotFound)
                      ELSE LET data == attendance[attendanceId]
                               got == [call EXCEPT !.data = data]
                           IN  IF data.uid # uid
                               THEN finish(got, ErrForbidden)
                               ELSE IF data.punchOut # NULL
                               THEN finish(got, ErrCompleted)
                               ELSE [got EXCEPT !.pc = "cancel:update"]]
    /\ calls' = calls + 1
    /\ UNCHANGED <<attendance, dailySummary, users, idPool, usedIds, clock>>

\* cancelOpenPunch setting the voided flag without the punchOut sentinel
CancelUpdate_FlagOnly(t) ==
    /\ task[t].pc = "cancel:update"
    /\ IF docExists(attendance, task[t].id)
       THEN /\ attendance' = [attendance EXCEPT ![task[t].id].voided = TRUE]
            /\ task' = [task EXCEPT ![t] = finish(@, "ok")]
       ELSE /\ task' = [task EXCEPT ![t] = finish(@, ErrStoreNotFound)]
            /\ UNCHANGED attendance
    /\ UNCHANGED <<dailySummary, users, idPool, usedIds, clock, calls>>

CancelUpdate(t) ==
    /\ task[t].pc = "cancel:update"
    /\ IF docExists(attendance, task[t].id)
       THEN /\ attendance' = [attendance EXCEPT
                                ![task[t].id].voided = TRUE,
                                ![task[t].id].punchOut = VOIDED]
            /\ task' = [task EXCEPT ![t] = finish(@, "ok")]
       ELSE /\ task' = [task EXCEPT ![t] = finish(@, ErrStoreNotFound)]
            /\ UNCHANGED attendance
    /\ UNCHANGED <<dailySummary, users, idPool, usedIds, clock, calls>>

\* ----- editPunch(punchId, {punchIn, punchOut}); NULL is an omitted field
\* updatedPunchIn with the stored punchIn taken whatever the request gives
updatedPunchIn_KeepsStored(data, punchIn) ==
    data.punchIn

\* punchIn ? new Date(punchIn) : new Date(data.punchIn)
updatedPunchIn(data, punchIn) ==
    IF punchIn # NULL THEN punchIn ELSE data.punchIn

\* updatedPunchOut without the fallback to the stored punchOut
updatedPunchOut_NoFallback(data, punchOut) ==
    IF punchOut # NULL THEN punchOut ELSE NULL

\* punchOut ? new Date(punchOut) : data.punchOut ? new Date(data.punchOut)
\* : null.  new Date('VOIDED') is an Invalid Date, represented by VOIDED.
updatedPunchOut(data, punchOut) ==
    IF punchOut # NULL THEN punchOut
    ELSE IF data.punchOut # NULL THEN data.punchOut
    ELSE NULL

\* Intl.DateTimeFormat('en-CA', {timeZone: 'Asia/Manila'}).format(date)
manilaDateString(t) == (t + MANILA_OFFSET_MS) \div MS_PER_DAY

\* EditGet without the check of snap.exists: data is undefined and reading
\* data.punchIn throws a TypeError
EditGet_NoExistsCheck(t, punchId, punchIn, punchOut) ==
    /\ CanStart(t)
    /\ LET call == [IdleTask EXCEPT !.op = "editPunch", !.id = punchId,
                                    !.argIn = punchIn, !.argOut = punchOut]
       IN  task' = [task EXCEPT ![t] =
                      IF ~docExists(attendance, punchId)
                      THEN finish(call, ErrTypeError)
                      ELSE LET data == attendance[punchId]
                               got == [call EXCEPT !.data = data,
                                                   !.uid = data.uid]
                               out == updatedPunchOut(data, punchOut)
                           IN  IF out = VOIDED
                               THEN finish(got, ErrInvalidTime)
                               ELSE IF out # NULL
                               THEN [got EXCEPT !.pc = "edit:user"]
                               ELSE [got EXCEPT !.pc = "edit:update"]]
    /\ calls' = calls + 1
    /\ UNCHANGED <<attendance, dailySummary, users, idPool, usedIds, clock>>

EditGet(t, punchId, punchIn, punchOut) ==
    /\ CanStart(t)
    /\ LET call == [IdleTask EXCEPT !.op = "editPunch", !.id = punchId,
                                    !.argIn = punchIn, !.argOut = punchOut]
       IN  task' = [task EXCEPT ![t] =
                      IF ~docExists(attendance, punchId)
                      THEN finish(call, ErrPunchNotFound)
                      ELSE LET data == attendance[punchId]
                               got == [call EXCEPT !.data = data,
                                                   !.uid = data.uid]
                               out == updatedPunchOut(data, punchOut)
                           IN  IF out = VOIDED
                               THEN finish(got, ErrInvalidTime)
                               ELSE IF out # NULL
                               THEN [got EXCEPT !.pc = "edit:user"]
                               ELSE [got EXCEPT !.pc = "edit:update"]]
    /\ calls' = calls + 1
    /\ UNCHANGED <<attendance, dailySummary, users, idPool, usedIds, clock>>

EditUser(t) ==
    /\ task[t].pc = "edit:user"
    /\ LET tk == task[t]
           userDoc == users[tk.data.uid]
           schedule == userDoc.schedule
           metrics == computeMetrics(updatedPunchIn(tk.data, tk.argIn),
                                     updatedPunchOut(tk.data, tk.argOut),
                                     schedule)
       IN  task' = [task EXCEPT ![t] =
                      IF ~userDoc.exists
                      THEN finish(tk, ErrUserNotFound)
                      ELSE IF schedule = NoSchedule
                      THEN finish(tk, ErrTypeError)
                      ELSE [tk EXCEPT !.pc = "rebuild:query",
                                      !.metrics = metrics,
                                      !.workDate = metrics.workDate]]
    /\ UNCHANGED <<attendance, dailySummary, users, idPool, usedIds, clock, calls>>

EditUpdate(t) ==
    /\ task[t].pc = "edit:update"
    /\ LET tk == task[t]
       IN  IF docExists(attendance, tk.id)
           THEN /\ attendance' = [attendance EXCEPT
                      ![tk.id].punchIn = updatedPunchIn(tk.data, tk.argIn),
                      ![tk.id].punchOut = updatedPunchOut(tk.data, tk.argOut),
                      ![tk.id].adminEdited = TRUE,
                      ![tk.id].metrics =
                          IF tk.metrics # NullMetrics THEN tk.metrics ELSE @]
                /\ task' = [task EXCEPT ![t] = finish(tk, "ok")]
           ELSE /\ task' = [task EXCEPT ![t] = finish(tk, ErrStoreNotFound)]
                /\ UNCHANGED attendance
    /\ UNCHANGED <<dailySummary, users, idPool, usedIds, clock, calls>>

\* ----- deletePunch(punchId)
DeleteGet(t, punchId) ==
    /\ CanStart(t)
    /\ LET call == [IdleTask EXCEPT !.op = "deletePunch", !.id = punchId]
       IN  task' = [task EXCEPT ![t] =
                      IF ~docExists(attendance, punchId)
                      THEN finish(call, ErrPunchNotFound)
                      ELSE LET data == attendance[punchId]
                           IN  [call EXCEPT
                                  !.pc = "delete:delete",
                                  !.data = data,
                                  !.uid = data.uid,
                                  !.workDate =
                                      IF hasMetrics(data)
                                      THEN data.metrics.workDate
                                      ELSE manilaDateString(data.punchIn)]]
    /\ calls' = calls + 1
    /\ UNCHANGED <<attendance, dailySummary, users, idPool, usedIds, clock>>

DeleteDoc(t) ==
    /\ task[t].pc = "delete:delete"
    /\ attendance' = docDelete(attendance, task[t].id)
    /\ task' = [task EXCEPT ![t].pc = "rebuild:query"]
    /\ UNCHANGED <<dailySummary, users, idPool, usedIds, clock, calls>>

\* ----- rebuildDailySummary(uid, workDate), called by editPunch, deletePunch
RebuildQuery(t) ==
    /\ task[t].pc = "rebuild:query"
    /\ task' = [task EXCEPT
                  ![t].pc = "rebuild:write",
                  ![t].dayRecords =
                      dayRecordsOf(attendance, task[t].uid, task[t].workDate)]
    /\ UNCHANGED <<attendance, dailySummary, users, idPool, usedIds, clock, calls>>

RebuildWrite(t) ==
    /\ task[t].pc = "rebuild:write"
    /\ LET tk == task[t]
       IN  /\ dailySummary' =
                  rebuildWrite(dailySummary, tk.uid, tk.workDate, tk.dayRecords)
           /\ task' = [task EXCEPT ![t] =
                         IF tk.op = "editPunch"
                         THEN [tk EXCEPT !.pc = "edit:update",
                                         !.dayRecords = <<>>]
                         ELSE finish(tk, "ok")]
    /\ UNCHANGED <<attendance, users, idPool, usedIds, clock, calls>>

\* ----- assignSchedule(targetUid, {schedule, timezone}); NoDoc is an omitted
\* schedule, "" an omitted timezone
AssignGet(t, targetUid, schedule, timezone) ==
    /\ CanStart(t)
    /\ LET call == [IdleTask EXCEPT !.op = "assignSchedule", !.uid = targetUid]
           snap == users[targetUid]
           updates == [schedule |-> schedule, timezone |-> timezone]
       IN  task' = [task EXCEPT ![t] =
                      IF ~snap.exists
                      THEN finish(call, ErrUserNotFound)
                      ELSE IF /\ schedule # NoDoc
                              /\ schedule.start = <<>> \/ schedule.end = <<>>
                      THEN finish(call, ErrScheduleRequired)
                      ELSE IF schedule = NoDoc /\ timezone = ""
                      THEN finish(call, ErrNothingToUpdate)
                      ELSE [call EXCEPT !.pc = "assign:update",
                                        !.updates = updates]]
    /\ calls' = calls + 1
    /\ UNCHANGED <<attendance, dailySummary, users, idPool, usedIds, clock>>

\* AssignUpdate recomputing the metrics of the user's closed records against
\* the schedule it assigns
AssignUpdate_Retroactive(t) ==
    /\ task[t].pc = "assign:update"
    /\ users[task[t].uid].exists
    /\ LET tk == task[t]
           schedule == IF tk.updates.schedule # NoDoc
                       THEN tk.updates.schedule
                       ELSE users[tk.uid].schedule
       IN  /\ users' = [users EXCEPT
                 ![tk.uid].schedule = schedule,
                 ![tk.uid].timezone =
                     IF tk.updates.timezone # ""
                     THEN tk.updates.timezone ELSE @]
           /\ attendance' =
                 [id \in DOMAIN attendance |->
                    LET r == attendance[id]
                    IN  IF /\ r.uid = tk.uid /\ r.punchOut # NULL
                           /\ r.punchOut # VOIDED /\ schedule # NoSchedule
                        THEN [r EXCEPT !.metrics =
                                computeMetrics(r.punchIn, r.punchOut, schedule)]
                        ELSE r]
           /\ task' = [task EXCEPT ![t] = finish(tk, "ok")]
    /\ UNCHANGED <<dailySummary, idPool, usedIds, clock, calls>>

AssignUpdate(t) ==
    /\ task[t].pc = "assign:update"
    /\ LET tk == task[t]
       IN  IF users[tk.uid].exists
           THEN /\ users' = [users EXCEPT
                      ![tk.uid].schedule =
                          IF tk.updates.schedule # NoDoc
                          THEN tk.updates.schedule ELSE @,
                      ![tk.uid].timezone =
                          IF tk.updates.timezone # ""
                          THEN tk.updates.timezone ELSE @]
                /\ task' = [task EXCEPT ![t] = finish(tk, "ok")]
           ELSE /\ task' = [task EXCEPT ![t] = finish(tk, ErrStoreNotFound)]
                /\ UNCHANGED users
    /\ UNCHANGED <<attendance, dailySummary, idPool, usedIds, clock, calls>>

\* ----- controllers: error.message.includes(...) ? status : status
\* A message as the sequence of its words and punctuation marks.
Words(message) ==
    CASE message = ErrOpenPunch ->
           <<"You", "already", "have", "an", "open", "punch", ".",
             "Please", "punch", "out", "first", ".">>
      [] message = ErrNoOpenPunch ->
           <<"No", "open", "punch", "found", ".",
             "Please", "punch", "in", "first", ".">>
      [] message = ErrNoProfile -> <<"User", "profile", "not", "found">>
      [] message = ErrNoSchedule ->
           <<"User", "schedule", "is", "not", "configured", ".",
             "Contact", "your", "administrator", ".">>
      [] message = ErrCancelNotFound -> <<"Punch", "record", "not", "found", ".">>
      [] message = ErrForbidden ->
           <<"Forbidden", ":", "This", "punch", "does", "not", "belong",
             "to", "you", ".">>
      [] message = ErrCompleted ->
           <<"This", "punch", "is", "already", "completed", ".", "Use", "the",
             "admin", "edit", "endpoint", "to", "correct", "a", "completed",
             "punch", ".">>
      [] message = ErrPunchNotFound -> <<"Punch", "record", "not", "found">>
      [] message = ErrUserNotFound -> <<"User", "not", "found">>
      [] message = ErrInvalidTime ->
           <<"RangeError", ":", "Invalid", "time", "value">>
      [] message = ErrTypeError ->
           <<"TypeError", ":", "Cannot", "read", "properties", "of",
             "undefined">>
      [] message = ErrStoreNotFound ->
           <<"NOT_FOUND", ":", "No", "document", "to", "update">>
      [] message = ErrScheduleRequired ->
           <<"schedule.start", "and", "schedule.end", "are", "required",
             "(", "HH:MM", "format", ")">>
      [] message = ErrNothingToUpdate ->
           <<"Provide", "at", "least", "one", "of", "schedule", "or",
             "timezone", "to", "update">>
      [] OTHER -> <<>>

\* message.includes(needle), needle given as its words
includes(message, needle) ==
    LET words == Words(message)
    IN  \E i \in 1..(Len(words) - Len(needle) + 1) :
            SubSeq(words, i, i + Len(needle) - 1) = needle

cancelOpenPunchHandler(result) ==
    IF result = "ok" THEN 200
    ELSE IF includes(result, <<"not", "found">>) THEN 404
    ELSE IF includes(result, <<"Forbidden">>) THEN 403
    ELSE IF includes(result, <<"already", "completed">>) THEN 409
    ELSE 500

handlePunchIn(result) ==
    IF result = "ok" THEN 201
    ELSE IF includes(result, <<"already", "have">>) THEN 409
    ELSE 500

handlePunchOut(result) ==
    IF result = "ok" THEN 200
    ELSE IF includes(result, <<"No", "open", "punch">>) THEN 404
    ELSE 500

\* editPunchHandler looking for 'Not found'
editPunchHandler_CapitalNeedle(result) ==
    IF result = "ok" THEN 200
    ELSE IF includes(result, <<"Not", "found">>) THEN 404
    ELSE 500

editPunchHandler(result) ==
    IF result = "ok" THEN 200
    ELSE IF includes(result, <<"not", "found">>) THEN 404
    ELSE 500

deletePunchHandler(result) ==
    IF result = "ok" THEN 200
    ELSE IF includes(result, <<"not", "found">>) THEN 404
    ELSE 500

assignScheduleHandler(result) ==
    IF result = "ok" THEN 200
    ELSE IF includes(result, <<"not", "found">>) THEN 404
    ELSE 400

\* the status the controller of service operation `op` answers with
httpStatus(op, result) ==
    CASE op = "punchIn" -> handlePunchIn(result)
      [] op = "punchOut" -> handlePunchOut(result)
      [] op = "cancelOpenPunch" -> cancelOpenPunchHandler(result)
      [] op = "editPunch" -> editPunchHandler(result)
      [] op = "deletePunch" -> deletePunchHandler(result)
      [] op = "assignSchedule" -> assignScheduleHandler(result)

\* ----- a call computeMetrics({punchIn, punchOut, schedule})
ComputeMetricsCall(t, punchIn, punchOut, schedule) ==
    /\ CanStart(t)
    /\ task' = [task EXCEPT ![t] =
                  finish([IdleTask EXCEPT
                            !.op = "computeMetrics",
                            !.argIn = punchIn,
                            !.argOut = punchOut,
                            !.data = [schedule |-> schedule],
                            !.metrics =
                                computeMetrics(punchIn, punchOut, schedule)],
                         "ok")]
    /\ UNCHANGED <<attendance, dailySummary, users, idPool, usedIds, clock, calls>>

\* ----- middleware: authenticate and requireRole(...allowedRoles).
\* A header is the sequence of its characters; <<>> is an absent header.
startsWith(str, prefix) ==
    /\ Len(str) >= Len(prefix)
    /\ SubSeq(str, 1, Len(prefix)) = prefix

\* the first index from which `sep` occurs in `str` at or after `from`,
\* 0 when there is none
RECURSIVE indexOf(_, _, _)
indexOf(str, sep, from) ==
    IF from + Len(sep) - 1 > Len(str) THEN 0
    ELSE IF SubSeq(str, from, from + Len(sep) - 1) = sep THEN from
    ELSE indexOf(str, sep, from + 1)

\* str.split(sep), sep not empty
RECURSIVE split(_, _)
split(str, sep) ==
    LET at == indexOf(str, sep, 1)
    IN  IF at = 0 THEN <<str>>
        ELSE <<SubSeq(str, 1, at - 1)>>
               \o split(SubSeq(str, at + Len(sep), Len(str)), sep)

Bearer == <<"B", "e", "a", "r", "e", "r", " ">>

\* the routes the middleware guards, each with its list of allowed roles;
\* <<>> is a route behind authenticate alone
RouteRoles ==
    [ details |-> <<>>,
      admin |-> <<"admin", "superadmin">>,
      grantAdmin |-> <<"superadmin">> ]

\* what auth.verifyIdToken(token) answers: a decoded token, with or without
\* a role claim, or a rejection
TokenRejected == [rejected |-> TRUE]
DecodedTokens ==
    { [uid |-> "u1", role |-> "user"],
      [uid |-> "u1", role |-> "admin"],
      [uid |-> "u1", role |-> "superadmin"],
      [uid |-> "u1"] }

\* req.user?.role ?? 'user' with every missing role taken for an allowed one
requireRole_MissingRolePasses(allowedRoles, user) ==
    LET role == IF "role" \in DOMAIN user THEN user.role ELSE allowedRoles[1]
    IN  IF \E i \in 1..Len(allowedRoles) : allowedRoles[i] = role
        THEN "next"
        ELSE "403"

\* requireRole(...allowedRoles)(req, res, next): "next", or the status sent
requireRole(allowedRoles, user) ==
    LET role == IF "role" \in DOMAIN user THEN user.role ELSE "user"
    IN  IF \E i \in 1..Len(allowedRoles) : allowedRoles[i] = role
        THEN "next"
        ELSE "403"

\* authenticate(req, res, next) up to the await of auth.verifyIdToken
Authenticate(t, route, authHeader) ==
    /\ CanStart(t)
    /\ LET call == [IdleTask EXCEPT !.op = route,
                                    !.authorization = authHeader]
       IN  task' = [task EXCEPT ![t] =
                      IF authHeader = <<>> \/ ~startsWith(authHeader, Bearer)
                      THEN finish([call EXCEPT !.status = 401], "401")
                      ELSE [call EXCEPT
                              !.pc = "authenticate:verify",
                              !.token = split(authHeader, Bearer)[2]]]
    /\ UNCHANGED <<attendance, dailySummary, users, idPool, usedIds, clock, calls>>

\* auth.verifyIdToken answers; next() runs the rest of the route's chain
AuthenticateVerify(t, decodedToken) ==
    /\ task[t].pc = "authenticate:verify"
    /\ LET tk == [task[t] EXCEPT !.verify = decodedToken]
           allowedRoles == RouteRoles[tk.op]
           passed == [tk EXCEPT !.user = decodedToken,
                                !.nextCalls = {"authenticate"}]
       IN  task' = [task EXCEPT ![t] =
                      IF decodedToken = TokenRejected
                      THEN finish([tk EXCEPT !.status = 401], "401")
                      ELSE IF allowedRoles = <<>>
                      THEN finish(passed, "handler")
                      ELSE IF requireRole(allowedRoles, decodedToken) = "next"
                      THEN finish([passed EXCEPT
                                     !.nextCalls = @ \cup {"requireRole"}],
                                  "handler")
                      ELSE finish([passed EXCEPT !.status = 403], "403")]
    /\ UNCHANGED <<attendance, dailySummary, users, idPool, usedIds, clock, calls>>

\* ----- weekly endpoints: the default week
\* today.getUTCDay(), 0 = Sunday; the reference day 0 is a Thursday
getUTCDay(t) == ((t \div MS_PER_DAY) + 4) % 7

\* d.toISOString().slice(0, 10)
isoDate(t) == t \div MS_PER_DAY

\* !q of a query parameter: left out, or the empty string
falsy(q) == q = NULL \/ q = EMPTY

\* the default week with Sunday taken as the first day of its week
defaultWeek_SundayFirst(today, startDate, endDate) ==
    IF falsy(startDate) \/ falsy(endDate)
    THEN LET day == getUTCDay(today)
             diffToMon == 1 - day
             monday == today + diffToMon * MS_PER_DAY
             sunday == monday + 6 * MS_PER_DAY
         IN  [ startDate |-> IF startDate = NULL THEN isoDate(monday)
                             ELSE startDate,
               endDate |-> IF endDate = NULL THEN isoDate(sunday)
                           ELSE endDate ]
    ELSE [startDate |-> startDate, endDate |-> endDate]

\* the block shared by getWeeklySummaryHandler and weeklyReportHandler;
\* x ??= v assigns only when x is undefined
defaultWeek(today, startDate, endDate) ==
    IF falsy(startDate) \/ falsy(endDate)
    THEN LET day == getUTCDay(today)
             diffToMon == IF day = 0 THEN -6 ELSE 1 - day
             monday == today + diffToMon * MS_PER_DAY
             sunday == monday + 6 * MS_PER_DAY
         IN  [ startDate |-> IF startDate = NULL THEN isoDate(monday)
                             ELSE startDate,
               endDate |-> IF endDate = NULL THEN isoDate(sunday)
                           ELSE endDate ]
    ELSE [startDate |-> startDate, endDate |-> endDate]

\* the handler up to its call of getWeeklySummary(req.user.uid, startDate,
\* endDate); `range` is the range passed
getWeeklySummaryHandler(t, uid, today, startDate, endDate) ==
    /\ CanStart(t)
    /\ task' = [task EXCEPT ![t] =
                  finish([IdleTask EXCEPT
                            !.op = "getWeeklySummary", !.uid = uid,
                            !.argIn = startDate, !.argOut = endDate,
                            !.now = today, !.status = 200,
                            !.range = defaultWeek(today, startDate, endDate)],
                         "ok")]
    /\ UNCHANGED <<attendance, dailySummary, users, idPool, usedIds, clock, calls>>

\* the handler up to its call of getAllWeeklyReports(startDate, endDate)
weeklyReportHandler(t, today, startDate, endDate) ==
    /\ CanStart(t)
    /\ task' = [task EXCEPT ![t] =
                  finish([IdleTask EXCEPT
                            !.op = "weeklyReport",
                            !.argIn = startDate, !.argOut = endDate,
                            !.now = today, !.status = 200,
                            !.range = defaultWeek(today, startDate, endDate)],
                         "ok")]
    /\ UNCHANGED <<attendance, dailySummary, users, idPool, usedIds, clock, calls>>

\* ----- the clock
Tick ==
    /\ clock < Len(ClockInstants)
    /\ clock' = clock + 1
    /\ UNCHANGED <<attendance, dailySummary, users, idPool, usedIds, task, calls>>

\* ------------------------------------------------------------- specification
EmptyColl == [k \in {} |-> NoDoc]

Profiles ==
    { [exists |-> TRUE, schedule |-> DefaultSchedule,
       timezone |-> "Asia/Manila"],
      [exists |-> TRUE, schedule |-> NoSchedule, timezone |-> "Asia/Manila"],
      NoProfile }

InitStore(maxRecords) ==
    /\ attendance = EmptyColl
    /\ dailySummary = EmptyColl
    /\ users \in {u \in [Users -> Profiles] : u["u1"].schedule = DefaultSchedule}
    /\ idPool = 1..maxRecords
    /\ usedIds = {}
    /\ clock = 1
    /\ task = [t \in Tasks |-> IdleTask]
    /\ calls = 0

Init == InitStore(MaxRecords)

\* what an administrator types in; NULL is a field left out
EditPunchIns == {NULL, ClockInstants[1], ClockInstants[4]}
EditPunchOuts == {NULL, ClockInstants[2], ClockInstants[3]}

\* a request arrives: the handler runs up to its first persistence call
Start(t) ==
    \/ \E uid \in Users : PunchInQuery(t, uid)
    \/ \E uid \in Users : PunchOutQuery(t, uid)
    \/ \E uid \in Users, id \in idPool : CancelGet(t, uid, id)
    \/ \E id \in idPool, pin \in EditPunchIns, pout \in EditPunchOuts :
          EditGet(t, id, pin, pout)
    \/ \E id \in idPool : DeleteGet(t, id)

\* a persistence call of a request in flight returns
Continue(t) ==
    \/ PunchInAdd(t)
    \/ PunchOutUser(t)
    \/ PunchOutUpdate(t)
    \/ PunchOutSummaryGet(t)
    \/ PunchOutSummaryWrite(t)
    \/ CancelUpdate(t)
    \/ EditUser(t)
    \/ EditUpdate(t)
    \/ DeleteDoc(t)
    \/ RebuildQuery(t)
    \/ RebuildWrite(t)

Quiescent == \A t \in Tasks : task[t].pc = "idle"

\* Requests served one at a time, each run to completion.  The clock is read
\* once per call, so it is enough to let time pass between calls.
Next ==
    \/ Quiescent /\ Tick
    \/ calls < MaxCalls /\ Start(1)
    \/ Continue(1)

Spec == Init /\ [][Next]_vars

\* One employee's days, with an administrator setting the punch-out of a
\* record to 19:00 and deleting records: requests served one at a time, more
\* of them, over three records.
EditPunchInsDay == {NULL, ClockInstants[1]}
EditPunchOutDay == ClockInstants[3]

StartDay(t) ==
    \/ PunchInQuery(t, "u1")
    \/ PunchOutQuery(t, "u1")
    \/ \E id \in idPool, pin \in EditPunchInsDay :
          EditGet(t, id, pin, EditPunchOutDay)
    \/ \E id \in idPool : DeleteGet(t, id)

ContinueDay(t) ==
    \/ PunchInAdd(t)
    \/ PunchOutUser(t)
    \/ PunchOutUpdate(t)
    \/ PunchOutSummaryGet(t)
    \/ PunchOutSummaryWrite(t)
    \/ EditUser(t)
    \/ EditUpdate(t)
    \/ DeleteDoc(t)
    \/ RebuildQuery(t)
    \/ RebuildWrite(t)

InitDay2 == InitStore(MaxRecords) /\ users["u2"] = NoProfile

InitDay == InitStore(MaxRecordsDay) /\ users["u2"] = NoProfile

NextDay ==
    \/ Quiescent /\ Tick
    \/ calls < MaxCallsDay /\ StartDay(1)
    \/ ContinueDay(1)

SpecDay == InitDay /\ [][NextDay]_vars

\* Two requests in flight, interleaved at their persistence calls.
NextConc ==
    \/ Tick
    \/ \E t \in Tasks : (calls < MaxCallsConc /\ Start(t)) \/ Continue(t)

SpecConc == Init /\ [][NextConc]_vars

\* One employee punching in and out, one call at a time, and an administrator
\* whose edits are in flight two at a time.
StartEdits(t) ==
    \/ Quiescent /\ t = 1 /\ PunchInQuery(t, "u1")
    \/ Quiescent /\ t = 1 /\ PunchOutQuery(t, "u1")
    \/ \E id \in idPool, pin \in EditPunchInsDay :
          EditGet(t, id, pin, EditPunchOutDay)

ContinueEdits(t) ==
    \/ PunchInAdd(t)
    \/ PunchOutUser(t)
    \/ PunchOutUpdate(t)
    \/ PunchOutSummaryGet(t)
    \/ PunchOutSummaryWrite(t)
    \/ EditUser(t)
    \/ EditUpdate(t)
    \/ RebuildQuery(t)
    \/ RebuildWrite(t)

NextEdits ==
    \/ Quiescent /\ Tick
    \/ \E t \in Tasks :
          (calls < MaxCallsEdits /\ StartEdits(t)) \/ ContinueEdits(t)

SpecEdits == InitDay2 /\ [][NextEdits]_vars

\* One employee punching in and out and an administrator who moves the
\* punchIn of records, one call at a time.
EditPunchInsMove == {ClockInstants[1], ClockInstants[2]}

StartMove(t) ==
    \/ PunchInQuery(t, "u1")
    \/ PunchOutQuery(t, "u1")
    \/ \E id \in idPool, pin \in EditPunchInsMove : EditGet(t, id, pin, NULL)

NextMove ==
    \/ Quiescent /\ Tick
    \/ calls < MaxCallsMove /\ StartMove(1)
    \/ ContinueEdits(1)

SpecMove == InitDay2 /\ [][NextMove]_vars

\* An employee punching in and out and asking for the punch status, one call
\* at a time.
StartStatus(t) ==
    \/ PunchInQuery(t, "u1")
    \/ PunchOutQuery(t, "u1")
    \/ StatusQuery(t, "u1")

ContinueStatus(t) ==
    \/ PunchInAdd(t)
    \/ PunchOutUser(t)
    \/ PunchOutUpdate(t)
    \/ PunchOutSummaryGet(t)
    \/ PunchOutSummaryWrite(t)
    \/ StatusSummaryGet(t)

NextStatus ==
    \/ Quiescent /\ Tick
    \/ calls < MaxCallsStatus /\ StartStatus(1)
    \/ ContinueStatus(1)

SpecStatus == InitDay2 /\ [][NextStatus]_vars

\* The weekly endpoints called on their own: on each day of two weeks, early
\* and late in the day, with each query parameter left out, empty or given.
WeekInstants ==
    {DateUTC(d, h, 0) : d \in 4..17, h \in {0, 23}}
QueryDates == {NULL, EMPTY, 5, 12}

NextWeekly ==
    \/ \E today \in WeekInstants, startDate \in QueryDates,
          endDate \in QueryDates :
          getWeeklySummaryHandler(1, "u1", today, startDate, endDate)
    \/ \E today \in WeekInstants, startDate \in QueryDates,
          endDate \in QueryDates :
          weeklyReportHandler(1, today, startDate, endDate)

SpecWeekly == InitDay2 /\ [][NextWeekly]_vars

\* The real-time flow: employees punching in, out and cancelling, one call
\* at a time, no administrator.
StartLive(t) ==
    \/ \E uid \in Users : PunchInQuery(t, uid)
    \/ \E uid \in Users : PunchOutQuery(t, uid)
    \/ \E uid \in Users, id \in idPool : CancelGet(t, uid, id)

ContinueLive(t) ==
    \/ PunchInAdd(t)
    \/ PunchOutUser(t)
    \/ PunchOutUpdate(t)
    \/ PunchOutSummaryGet(t)
    \/ PunchOutSummaryWrite(t)
    \/ CancelUpdate(t)

NextLive ==
    \/ Quiescent /\ Tick
    \/ calls < MaxCallsLive /\ StartLive(1)
    \/ ContinueLive(1)

SpecLive == InitStore(MaxRecordsDay) /\ [][NextLive]_vars

\* Employees and an administrator who also assigns schedules, one call at a
\* time.
AssignSchedules ==
    { NoDoc, DefaultSchedule, [start |-> HHMM(8, 0), end |-> HHMM(17, 0)],
      [start |-> HHMM(9, 0), end |-> <<>>] }

AssignTimezones == {"", "UTC"}

StartAdmin(t) ==
    \/ Start(t)
    \/ \E uid \in Users, schedule \in AssignSchedules,
          timezone \in AssignTimezones :
          AssignGet(t, uid, schedule, timezone)

ContinueAdmin(t) ==
    \/ Continue(t)
    \/ AssignUpdate(t)

NextAdmin ==
    \/ Quiescent /\ Tick
    \/ calls < MaxCallsAdmin /\ StartAdmin(1)
    \/ ContinueAdmin(1)

SpecAdmin == Init /\ [][NextAdmin]_vars

\* The metrics engine called on its own.  Instants of a punch, by their
\* local (UTC+8) reading on days 1 to 3; the work date of day 1 ends one
\* millisecond before local midnight of day 2.
LocalInstant(day, h, mi) == DateUTC(day, h, mi) - MANILA_OFFSET_MS

MetricInstants ==
    { LocalInstant(1, 5, 0), LocalInstant(1, 8, 0), LocalInstant(1, 8, 30),
      LocalInstant(1, 9, 0), LocalInstant(1, 9, 1), LocalInstant(1, 12, 0),
      LocalInstant(1, 17, 59), LocalInstant(1, 18, 0), LocalInstant(1, 18, 1),
      LocalInstant(1, 23, 0), LocalInstant(2, 0, 0) - 1, LocalInstant(2, 0, 0),
      LocalInstant(2, 2, 0), LocalInstant(2, 7, 0), LocalInstant(3, 1, 0) }

MetricSchedules ==
    { DefaultSchedule,
      [start |-> HHMM(8, 0), end |-> HHMM(17, 0)],
      [start |-> HHMM(18, 0), end |-> HHMM(23, 30)],
      [start |-> HHMM(9, 0), end |-> HHMM(18, 1)] }

NextMetrics ==
    \E punchIn \in MetricInstants, punchOut \in MetricInstants,
       schedule \in MetricSchedules :
        ComputeMetricsCall(1, punchIn, punchOut, schedule)

SpecMetrics == InitDay2 /\ [][NextMetrics]_vars

\* Requests at the access gate, two in flight.
\* Authorization headers: absent, 'Basic t', 'bearer t', 'Bearer',
\* 'Bearer t', 'Bearer ', 'Bearer tBearer x'
AuthHeaders ==
    { <<>>,
      <<"B", "a", "s", "i", "c", " ", "t">>,
      <<"b", "e", "a", "r", "e", "r", " ", "t">>,
      <<"B", "e", "a", "r", "e", "r">>,
      Bearer \o <<"t">>,
      Bearer,
      Bearer \o <<"t">> \o Bearer \o <<"x">> }

NextGate ==
    \E t \in Tasks :
        \/ \E route \in DOMAIN RouteRoles, authHeader \in AuthHeaders :
              Authenticate(t, route, authHeader)
        \/ \E decodedToken \in DecodedTokens \cup {TokenRejected} :
              AuthenticateVerify(t, decodedToken)

SpecGate == InitDay2 /\ [][NextGate]_vars

\* =================================================================== claims
\* Vocabulary of the data model, stated on the stored documents alone.
isInstant(po) == po # NULL /\ po # VOIDED

OpenIds(uid) ==
    {id \in DOMAIN attendance :
        attendance[id].uid = uid /\ attendance[id].punchOut = NULL}

\* R(s): the completed, non-voided records of (uid, workDate)
DayIds(uid, workDate) ==
    {id \in DOMAIN attendance :
        /\ attendance[id].uid = uid
        /\ isInstant(attendance[id].punchOut)
        /\ attendance[id].metrics # NullMetrics
        /\ attendance[id].metrics.workDate = workDate}

RECURSIVE SumOver(_, _)
SumOver(f, S) ==
    IF S = {} THEN 0
    ELSE LET x == CHOOSE y \in S : TRUE IN f[x] + SumOver(f, S \ {x})

EarliestIn(R) ==
    {id \in R : \A o \in R : attendance[id].punchIn <= attendance[o].punchIn}

LatestOut(R) ==
    {id \in R : \A o \in R : attendance[id].punchOut >= attendance[o].punchOut}

\* the four totals of I4 for summary s over the record set R
TotalsAgree(s, R) ==
    /\ s.regularHours =
           SumOver([id \in R |-> attendance[id].metrics.regularHours], R)
    /\ s.overtimeHours =
           SumOver([id \in R |-> attendance[id].metrics.overtimeHours], R)
    /\ s.nightDiffHours =
           SumOver([id \in R |-> attendance[id].metrics.nightDiffHours], R)
    /\ s.totalWorkedHours =
           SumOver([id \in R |-> attendance[id].metrics.totalWorkedHours], R)

\* I4 for summary s over the record set R
RollupAgrees(s, R) ==
    /\ TotalsAgree(s, R)
    /\ R # {} =>
         /\ \E id \in EarliestIn(R) :
               s.lateMinutes = attendance[id].metrics.lateMinutes
         /\ \E id \in LatestOut(R) :
               s.undertimeMinutes = attendance[id].metrics.undertimeMinutes

\* C1: between calls served one at a time, every existing daily summary
\* satisfies the rollup formula I4 over the completed non-voided records of
\* its (uid, workDate).
C1_RollupInvariant ==
    Quiescent =>
        \A sid \in DOMAIN dailySummary :
            RollupAgrees(dailySummary[sid], DayIds(sid[1], sid[2]))

\* C2: with calls served one at a time each user has at most one open
\* record, and a punchIn by a user who has an open record fails with the
\* 'already have an open punch' conflict and writes nothing.
C2_SingleOpenPunch ==
    /\ [](\A uid \in Users : Cardinality(OpenIds(uid)) <= 1)
    /\ [][\A uid \in Users :
            (PunchInQuery(1, uid) /\ OpenIds(uid) # {}) =>
                /\ task'[1].pc = "idle"
                /\ task'[1].result = ErrOpenPunch
                /\ attendance' = attendance]_vars

C2_Witness ==
    /\ task[1].op = "punchIn"
    /\ task[1].pc = "idle"
    /\ task[1].result = ErrOpenPunch
    /\ Cardinality(OpenIds(task[1].uid)) = 1

\* C3: when two punchIn calls of one user have both run their open-punch
\* query before either has created its record, the call that creates its
\* record last succeeds as well, and the store then holds two open records of
\* that user.
RacingPunchIns(t, o) ==
    /\ t # o
    /\ task[t].pc = "punchIn:add"
    /\ task[o].op = "punchIn"
    /\ task[o].uid = task[t].uid
    /\ \/ task[o].pc = "punchIn:add"
       \/ /\ task[o].pc = "idle"
          /\ task[o].result = "ok"
          /\ task[o].id \in OpenIds(task[o].uid)

C3_PunchInRace ==
    [][\A t \in Tasks, o \in Tasks :
         (RacingPunchIns(t, o) /\ task'[t].pc = "idle") =>
             /\ task'[t].result = "ok"
             /\ task'[t].id \in DOMAIN attendance' \ DOMAIN attendance
             /\ attendance'[task'[t].id].uid = task[t].uid
             /\ attendance'[task'[t].id].punchOut = NULL
             /\ task[o].pc = "idle" =>
                  /\ task[o].id # task'[t].id
                  /\ attendance'[task[o].id].punchOut = NULL]_vars

C3_Witness ==
    /\ task[1].op = "punchIn" /\ task[1].pc = "idle" /\ task[1].result = "ok"
    /\ task[2].op = "punchIn" /\ task[2].pc = "idle" /\ task[2].result = "ok"
    /\ task[1].uid = task[2].uid
    /\ task[1].id # task[2].id
    /\ {task[1].id, task[2].id} \subseteq OpenIds(task[1].uid)

\* I2 for one record
metricsIffClosed(r) == (r.metrics # NullMetrics) <=> isInstant(r.punchOut)

\* C4 as stated: in every reachable state, requests interleaved or not,
\* every attendance record has metrics if and only if its punchOut is an
\* instant (neither null nor "VOIDED").
C4_MetricsIffClosed ==
    \A id \in DOMAIN attendance : metricsIffClosed(attendance[id])

\* C4: every record that punchIn creates has metrics if and only if its
\* punchOut is an instant, and so has every record that punchOut,
\* cancelOpenPunch or editPunch writes, provided the record had the property
\* and is unchanged since the call read it.
C4_WritesKeepMetricsIffClosed ==
    [][\A t \in Tasks : \A id \in DOMAIN attendance' :
         task'[t] # task[t] =>
             IF id \in DOMAIN attendance
             THEN (/\ attendance'[id] # attendance[id]
                   /\ task[t].data = attendance[id]
                   /\ metricsIffClosed(attendance[id]))
                      => metricsIffClosed(attendance'[id])
             ELSE metricsIffClosed(attendance'[id])]_vars

\* editPunch has closed a voided record
C4_Witness ==
    \E t \in Tasks :
        /\ task[t].op = "editPunch" /\ task[t].pc = "idle"
        /\ task[t].result = "ok"
        /\ task[t].data.punchOut = VOIDED
        /\ isInstant(attendance[task[t].id].punchOut)
        /\ attendance[task[t].id].metrics # NullMetrics

\* C5: between calls served one at a time, no daily summary exists for a
\* (uid, workDate) that has no completed non-voided record.
C5_NoEmptySummary ==
    Quiescent =>
        \A sid \in DOMAIN dailySummary : DayIds(sid[1], sid[2]) # {}

\* C6: in every punchOut call and every editPunch call on a complete pair,
\* the attendance record already holds the call's punch times and metrics
\* when the daily summary is read and when it is written.
C6_RecordWrittenBeforeSummary ==
    LET tk == task[1]
        rec == attendance[tk.id]
    IN  /\ tk.pc \in {"punchOut:summaryGet", "punchOut:summaryWrite"} =>
              /\ rec.punchOut = tk.now
              /\ rec.metrics = tk.metrics
        /\ (tk.op = "editPunch" /\ tk.pc \in {"rebuild:query", "rebuild:write"}) =>
              /\ rec.punchIn = (IF tk.argIn # NULL THEN tk.argIn
                                ELSE tk.data.punchIn)
              /\ rec.punchOut = (IF tk.argOut # NULL THEN tk.argOut
                                 ELSE tk.data.punchOut)
              /\ rec.metrics = tk.metrics

\* The rebuild of section 4.5 as a relation between a summary s and the set
\* R of records it is built from: totals are sums, lateness is that of a
\* record first by punchIn, undertime that of a record last by punchIn, and
\* punches lists exactly the records of R.
LatestIn(R) ==
    {id \in R : \A o \in R : attendance[id].punchIn >= attendance[o].punchIn}

RebuildAgrees(s, uid, workDate, R) ==
    /\ s.uid = uid
    /\ s.workDate = workDate
    /\ TotalsAgree(s, R)
    /\ \E id \in EarliestIn(R) :
          s.lateMinutes = attendance[id].metrics.lateMinutes
    /\ \E id \in LatestIn(R) :
          s.undertimeMinutes = attendance[id].metrics.undertimeMinutes
    /\ Len(s.punches) = Cardinality(R)
    /\ {s.punches[i] : i \in 1..Len(s.punches)} =
           {punchEntry(id, attendance[id].punchIn, attendance[id].punchOut) :
               id \in R}

\* C7: after a successful editPunch whose resulting pair is complete, the
\* daily summary of (record.uid, new metrics.workDate) exists and is the
\* rebuild over the attendance records as stored after the edit.
C7_EditPostcondition ==
    LET tk == task[1] IN
    (tk.pc = "idle" /\ tk.op = "editPunch" /\ tk.result = "ok"
        /\ isInstant(attendance[tk.id].punchOut)) =>
        LET uid == attendance[tk.id].uid
            workDate == attendance[tk.id].metrics.workDate
        IN  /\ docExists(dailySummary, summaryId(uid, workDate))
            /\ RebuildAgrees(dailySummary[summaryId(uid, workDate)],
                             uid, workDate, DayIds(uid, workDate))

\* the UTC+8 calendar date of an instant
LocalDate(t) == (t + 8 * MS_PER_HOUR) \div (24 * MS_PER_HOUR)

\* the day a deleted record belonged to
DeletedWorkDate(data) ==
    IF data.metrics # NullMetrics THEN data.metrics.workDate
    ELSE LocalDate(data.punchIn)

RecordsOfDay(uid, workDate) ==
    {id \in DOMAIN attendance :
        /\ attendance[id].uid = uid
        /\ DeletedWorkDate(attendance[id]) = workDate}

\* C9: once deletePunch has removed the last attendance record of a
\* (uid, workDate), no daily summary uid_workDate exists.
C9_DeleteConvergence ==
    LET tk == task[1] IN
    (tk.pc = "idle" /\ tk.op = "deletePunch" /\ tk.result = "ok"
        /\ RecordsOfDay(tk.data.uid, DeletedWorkDate(tk.data)) = {}) =>
        ~docExists(dailySummary,
                   summaryId(tk.data.uid, DeletedWorkDate(tk.data)))

C9_Witness ==
    LET tk == task[1] IN
    /\ tk.pc = "idle" /\ tk.op = "deletePunch" /\ tk.result = "ok"
    /\ tk.data.metrics # NullMetrics
    /\ RecordsOfDay(tk.data.uid, DeletedWorkDate(tk.data)) = {}
    /\ ~docExists(dailySummary,
                  summaryId(tk.data.uid, DeletedWorkDate(tk.data)))

\* workDates a record can have within the instants of the model
WorkDates == {LocalDate(t) : t \in Instants}

\* rebuildDailySummary(uid, workDate) run on the summaries sum, the
\* attendance collection left as it is
rebuildOnce(sum, uid, workDate) ==
    rebuildWrite(sum, uid, workDate, dayRecordsOf(attendance, uid, workDate))

\* C10: in every reachable state of the store, running rebuildDailySummary
\* twice in a row leaves the summaries as the first run left them.
C10_RebuildIdempotent ==
    \A uid \in Users, workDate \in WorkDates :
        rebuildOnce(rebuildOnce(dailySummary, uid, workDate), uid, workDate)
            = rebuildOnce(dailySummary, uid, workDate)

\* a stale summary that the first run rewrites
C10_Witness ==
    \E uid \in Users, workDate \in WorkDates :
        /\ Quiescent
        /\ docExists(dailySummary, summaryId(uid, workDate))
        /\ DayIds(uid, workDate) # {}
        /\ rebuildOnce(dailySummary, uid, workDate) # dailySummary

\* the summary of (uid, workDate) is what a rebuild over the stored records
\* gives: absent when the day has no completed record
SummaryRebuilt(uid, workDate) ==
    IF DayIds(uid, workDate) = {}
    THEN ~docExists(dailySummary, summaryId(uid, workDate))
    ELSE /\ docExists(dailySummary, summaryId(uid, workDate))
         /\ RebuildAgrees(dailySummary[summaryId(uid, workDate)],
                          uid, workDate, DayIds(uid, workDate))

\* C11: when two editPunch calls on two different closed records of one
\* (uid, workDate) have both completed, however they interleaved, and the
\* records are still of that day, the daily summary of the day is the
\* rebuild over the attendance records as stored.
C11_ConcurrentEditsConverge ==
    LET a == task[1]
        b == task[2]
    IN  (/\ a.pc = "idle" /\ a.op = "editPunch" /\ a.result = "ok"
         /\ b.pc = "idle" /\ b.op = "editPunch" /\ b.result = "ok"
         /\ a.id # b.id
         /\ a.data.uid = b.data.uid
         /\ isInstant(a.data.punchOut) /\ isInstant(b.data.punchOut)
         /\ a.data.metrics.workDate = b.data.metrics.workDate
         /\ attendance[a.id].metrics.workDate = a.data.metrics.workDate
         /\ attendance[b.id].metrics.workDate = a.data.metrics.workDate)
        => SummaryRebuilt(a.data.uid, a.data.metrics.workDate)

\* C12: with only punchIn, punchOut and cancelOpenPunch, served one at a
\* time, after every successful punchOut the summary of the closed record's
\* day exists and every daily summary satisfies the rollup formula I4 over
\* the completed non-voided records of its (uid, workDate).
C12_UpsertKeepsRollup ==
    LET tk == task[1] IN
    (tk.pc = "idle" /\ tk.op = "punchOut" /\ tk.result = "ok") =>
        /\ docExists(dailySummary, summaryId(tk.uid, tk.metrics.workDate))
        /\ \A sid \in DOMAIN dailySummary :
              /\ DayIds(sid[1], sid[2]) # {}
              /\ RollupAgrees(dailySummary[sid], DayIds(sid[1], sid[2]))

\* the second punch pair of a day has been closed, later than the first
C12_Witness ==
    LET tk == task[1] IN
    /\ tk.pc = "idle" /\ tk.op = "punchOut" /\ tk.result = "ok"
    /\ Cardinality(DayIds(tk.uid, tk.metrics.workDate)) >= 2
    /\ \E id \in DayIds(tk.uid, tk.metrics.workDate) :
          attendance[id].punchIn < tk.data.punchIn

\* C13: in every state between calls, no daily summary's punches list
\* references a stored attendance record whose voided flag is true.
C13_VoidedNotAggregated ==
    Quiescent =>
        \A sid \in DOMAIN dailySummary :
            \A i \in 1..Len(dailySummary[sid].punches) :
                LET id == dailySummary[sid].punches[i].attendanceId
                IN  docExists(attendance, id) => ~attendance[id].voided

\* C14: cancelOpenPunch(uid, attendanceId) fails with "Punch record not
\* found." when the record is absent, else with "Forbidden: ..." when the
\* record is another user's, else with "... already completed ..." when its
\* punchOut is not null; a failing call changes no attendance record and no
\* daily summary.
C14_CancelGuards ==
    [][\A uid \in Users, id \in idPool :
         CancelGet(1, uid, id) =>
             LET failed == task'[1].pc = "idle"
                 result == task'[1].result
             IN  /\ ~docExists(attendance, id) =>
                      failed /\ result = ErrCancelNotFound
                 /\ (docExists(attendance, id) /\ attendance[id].uid # uid) =>
                      failed /\ result = ErrForbidden
                 /\ (/\ docExists(attendance, id)
                     /\ attendance[id].uid = uid
                     /\ attendance[id].punchOut # NULL) =>
                      failed /\ result = ErrCompleted
                 /\ (/\ docExists(attendance, id)
                     /\ attendance[id].uid = uid
                     /\ attendance[id].punchOut = NULL) => ~failed
                 /\ failed =>
                      /\ attendance' = attendance
                      /\ dailySummary' = dailySummary]_vars

\* a user tried to cancel another user's completed record
C14_Witness ==
    /\ task[1].pc = "idle" /\ task[1].op = "cancelOpenPunch"
    /\ task[1].result = ErrForbidden
    /\ task[1].data.punchOut # NULL

C16_PunchOutPreconditions ==
    /\ [][\A uid \in Users :
            PunchOutQuery(1, uid) =>
                /\ attendance' = attendance /\ dailySummary' = dailySummary
                /\ IF OpenIds(uid) = {}
                   THEN task'[1].pc = "idle"
                        /\ task'[1].result = ErrNoOpenPunch
                   ELSE task'[1].pc = "punchOut:user"
                        /\ task'[1].id \in OpenIds(uid)]_vars
    /\ [][PunchOutUser(1) =>
            LET profile == users[task[1].uid]
                failed == task'[1].pc = "idle"
                result == task'[1].result
            IN  /\ attendance' = attendance /\ dailySummary' = dailySummary
                /\ ~profile.exists => failed /\ result = ErrNoProfile
                /\ (/\ profile.exists
                    /\ \/ profile.schedule.start = <<>>
                       \/ profile.schedule.end = <<>>) =>
                     failed /\ result = ErrNoSchedule
                /\ (/\ profile.exists
                    /\ profile.schedule.start # <<>>
                    /\ profile.schedule.end # <<>>) => ~failed
                /\ failed =>
                     /\ attendance'[task[1].id].punchOut = NULL
                     /\ attendance'[task[1].id].metrics = NullMetrics]_vars

\* a punchOut has failed on a profile without schedule, the record still open
C16_Witness ==
    /\ task[1].pc = "idle" /\ task[1].op = "punchOut"
    /\ task[1].result = ErrNoSchedule
    /\ task[1].id \in OpenIds(task[1].uid)
    /\ dailySummary = EmptyColl

\* the failures of kind NotFound: a referenced record or user is absent
NotFoundFailures ==
    { ErrNoOpenPunch, ErrNoProfile, ErrCancelNotFound, ErrPunchNotFound,
      ErrUserNotFound }

\* C17 as stated: every NotFound failure of a service operation is answered
\* by its controller with status 404.
C17_NotFoundIs404 ==
    \A t \in Tasks :
        (task[t].pc = "idle" /\ task[t].result \in NotFoundFailures) =>
            httpStatus(task[t].op, task[t].result) = 404

\* C17: every NotFound failure of a service operation is answered by its
\* controller with status 404, except "User profile not found" of punchOut,
\* which is answered with 500.
C17_NotFoundIs404ButProfile ==
    \A t \in Tasks :
        (task[t].pc = "idle" /\ task[t].result \in NotFoundFailures) =>
            httpStatus(task[t].op, task[t].result) =
                IF task[t].op = "punchOut" /\ task[t].result = ErrNoProfile
                THEN 500 ELSE 404

\* an administrator's edit of the record of a user without profile
C17_Witness ==
    /\ task[1].pc = "idle" /\ task[1].op = "editPunch"
    /\ task[1].result = ErrUserNotFound
    /\ httpStatus(task[1].op, task[1].result) = 404

\* a call of computeMetrics has returned
MetricsReturned == task[1].pc = "idle" /\ task[1].op = "computeMetrics"

\* C18: for every punchIn <= punchOut and every schedule with start < end,
\* the totalWorkedHours computeMetrics returns equals the regularHours plus
\* the overtimeHours it returns.
C18_SumIdentity ==
    (MetricsReturned /\ task[1].argIn <= task[1].argOut) =>
        task[1].metrics.totalWorkedHours =
            task[1].metrics.regularHours + task[1].metrics.overtimeHours

\* local midnight that ends the work date of an instant
LocalMidnightAfter(t) == (LocalDate(t) + 1) * (24 * MS_PER_HOUR) - 8 * MS_PER_HOUR

ScheduleStartOn(t, schedule) ==
    LocalDate(t) * (24 * MS_PER_HOUR) - 8 * MS_PER_HOUR
      + schedule.start[1] * MS_PER_HOUR + schedule.start[2] * MS_PER_MIN

\* C20: for a punchIn at or before the schedule start, computeMetrics
\* returns lateMinutes = 0 and, for every earlier punchIn of the same local
\* date with the same punchOut and schedule, the same regularHours,
\* overtimeHours and totalWorkedHours.
C20_EarlyArrivalExcluded ==
    LET pi == task[1].argIn
        schedule == task[1].data.schedule
        m == task[1].metrics
    IN  (MetricsReturned /\ pi <= ScheduleStartOn(pi, schedule)) =>
            /\ m.lateMinutes = 0
            /\ \A earlier \in MetricInstants :
                  (earlier < pi /\ LocalDate(earlier) = LocalDate(pi)) =>
                      LET e == computeMetrics(earlier, task[1].argOut, schedule)
                      IN  /\ e.lateMinutes = 0
                          /\ e.regularHours = m.regularHours
                          /\ e.overtimeHours = m.overtimeHours
                          /\ e.totalWorkedHours = m.totalWorkedHours

\* on time at 09:00 for nine regular hours and one minute of overtime, as
\* the arrival at 05:00 would give
C20_Witness ==
    /\ MetricsReturned
    /\ task[1].argIn = LocalInstant(1, 9, 0)
    /\ task[1].argOut = LocalInstant(1, 18, 1)
    /\ task[1].data.schedule = DefaultSchedule
    /\ task[1].metrics.regularHours = 9 * HOUR_CENT * HOUR_CENT
    /\ task[1].metrics.overtimeHours = 2 * HOUR_CENT

\* the instant a schedule ends on the work date of an instant
ScheduleEndOn(t, schedule) ==
    LocalDate(t) * (24 * MS_PER_HOUR) - 8 * MS_PER_HOUR
      + schedule.end[1] * MS_PER_HOUR + schedule.end[2] * MS_PER_MIN

\* milliseconds in one unit (1/10000 hour) of an hours field
MsPerHourUnit == MS_PER_HOUR \div (HOUR_CENT * HOUR_CENT)

\* the length of a schedule on the work date of an instant, in milliseconds
ScheduleLength(t, schedule) ==
    ScheduleEndOn(t, schedule) - ScheduleStartOn(t, schedule)

\* a call of computeMetrics with punchIn <= punchOut and start < end
OrderedCall ==
    /\ MetricsReturned
    /\ task[1].argIn <= task[1].argOut
    /\ ScheduleLength(task[1].argIn, task[1].data.schedule) > 0

\* C21: for every punchIn <= punchOut and schedule with start < end, the
\* regularHours computeMetrics returns is at most (schedEnd - schedStart)
\* in hours.
C21_ScheduleContainment ==
    OrderedCall =>
        task[1].metrics.regularHours * MsPerHourUnit
            <= ScheduleLength(task[1].argIn, task[1].data.schedule)

\* C21 as amended: regularHours is at most the schedule length rounded to
\* two decimals of an hour, half a hundredth above the length at most.
C21_ContainmentRounded ==
    OrderedCall =>
        LET length == ScheduleLength(task[1].argIn, task[1].data.schedule)
            cents == task[1].metrics.regularHours \div HOUR_CENT
        IN  /\ task[1].metrics.regularHours = cents * HOUR_CENT
            /\ 2 * cents * (MS_PER_HOUR \div HOUR_CENT)
                 <= 2 * length + (MS_PER_HOUR \div HOUR_CENT)

\* the whole schedule of 09:00 to 18:01 worked, from 08:00 to 23:00: 9.02
\* regular hours on a schedule of 9 hours and 1 minute
C21_Witness ==
    /\ MetricsReturned
    /\ task[1].argIn = LocalInstant(1, 8, 0)
    /\ task[1].argOut = LocalInstant(1, 23, 0)
    /\ task[1].data.schedule = [start |-> HHMM(9, 0), end |-> HHMM(18, 1)]
    /\ task[1].metrics.regularHours = 902 * HOUR_CENT

\* C22: for every punchOut earlier than punchIn, computeMetrics returns zero
\* in all six numeric fields: regularHours, overtimeHours, nightDiffHours,
\* totalWorkedHours, lateMinutes and undertimeMinutes.
C22_DegenerateAllZero ==
    (MetricsReturned /\ task[1].argOut < task[1].argIn) =>
        /\ task[1].metrics.regularHours = 0
        /\ task[1].metrics.overtimeHours = 0
        /\ task[1].metrics.nightDiffHours = 0
        /\ task[1].metrics.totalWorkedHours = 0
        /\ task[1].metrics.lateMinutes = 0
        /\ task[1].metrics.undertimeMinutes = 0

\* C22 as amended: for every punchOut earlier than punchIn, computeMetrics
\* returns zero in the four hours fields: regularHours, overtimeHours,
\* nightDiffHours and totalWorkedHours.
C22_DegenerateHoursZero ==
    (MetricsReturned /\ task[1].argOut < task[1].argIn) =>
        /\ task[1].metrics.regularHours = 0
        /\ task[1].metrics.overtimeHours = 0
        /\ task[1].metrics.nightDiffHours = 0
        /\ task[1].metrics.totalWorkedHours = 0

\* in at 12:00 and out at 09:00 on the 09:00 to 18:00 schedule: no hours,
\* 180 minutes late and 540 minutes of undertime
C22_Witness ==
    /\ MetricsReturned
    /\ task[1].argIn = LocalInstant(1, 12, 0)
    /\ task[1].argOut = LocalInstant(1, 9, 0)
    /\ task[1].data.schedule = DefaultSchedule
    /\ task[1].metrics.totalWorkedHours = 0
    /\ task[1].metrics.lateMinutes = 180
    /\ task[1].metrics.undertimeMinutes = 540

\* C23: for every punchOut >= punchIn and every schedule with start < end,
\* computeMetrics returns, and every numeric field it returns is a number
\* that is not negative.
C23_Totality ==
    OrderedCall =>
        LET m == task[1].metrics
        IN  /\ DOMAIN m = { "workDate", "regularHours", "overtimeHours",
                            "nightDiffHours", "lateMinutes",
                            "undertimeMinutes", "totalWorkedHours" }
            /\ \A f \in DOMAIN m \ {"workDate"} : m[f] \in Nat

\* an arrival four hours before the schedule start and a leave at noon: not
\* late, three regular hours, one night-differential hour, six hours short
C23_Witness ==
    /\ OrderedCall
    /\ task[1].argIn = LocalInstant(1, 5, 0)
    /\ task[1].argOut = LocalInstant(1, 12, 0)
    /\ task[1].data.schedule = DefaultSchedule
    /\ task[1].metrics.lateMinutes = 0
    /\ task[1].metrics.regularHours = 3 * HOUR_CENT * HOUR_CENT
    /\ task[1].metrics.nightDiffHours = 1 * HOUR_CENT * HOUR_CENT
    /\ task[1].metrics.undertimeMinutes = 360

\* a closed record carries the local date of its punchIn as its work date
workDateOfPunchIn(r) ==
    (isInstant(r.punchOut) /\ hasMetrics(r)) =>
        r.metrics.workDate = LocalDate(r.punchIn)

\* C24: in every reachable state, the metrics.workDate of every closed
\* attendance record is the UTC+8 local calendar date of the punchIn the
\* record currently stores, also after an editPunch that changes punchIn.
C24_WorkDateOfPunchIn ==
    \A id \in DOMAIN attendance : workDateOfPunchIn(attendance[id])

\* C24 as amended: every write of a record by punchOut, cancelOpenPunch or
\* editPunch leaves it with metrics.workDate the local date of its punchIn,
\* when the record had this and is still as the call read it; a record that
\* punchIn creates is open.
C24_WritesKeepWorkDate ==
    [][\A t \in Tasks : \A id \in DOMAIN attendance' :
         task'[t] # task[t] =>
             IF id \in DOMAIN attendance
             THEN (/\ attendance'[id] # attendance[id]
                   /\ task[t].data = attendance[id]
                   /\ workDateOfPunchIn(attendance[id]))
                      => workDateOfPunchIn(attendance'[id])
             ELSE workDateOfPunchIn(attendance'[id])]_vars

\* editPunch has moved the punchIn of a closed record to another local day,
\* and the record's work date with it
C24_Witness ==
    \E t \in Tasks :
        /\ task[t].op = "editPunch" /\ task[t].pc = "idle"
        /\ task[t].result = "ok"
        /\ isInstant(task[t].data.punchOut)
        /\ task[t].argIn # NULL
        /\ LocalDate(task[t].argIn) # LocalDate(task[t].data.punchIn)
        /\ docExists(attendance, task[t].id)
        /\ attendance[task[t].id].punchIn = task[t].argIn
        /\ attendance[task[t].id].metrics.workDate = LocalDate(task[t].argIn)

\* a step of an editPunch that supplies only punchIn, on a record it read
\* with punchOut null
EditOpenStep(t) ==
    /\ task'[t] # task[t]
    /\ task'[t].op = "editPunch"
    /\ task'[t].argIn # NULL /\ task'[t].argOut = NULL
    /\ task'[t].data # NoDoc /\ task'[t].data.punchOut = NULL

\* C25: when editPunch supplies only punchIn for a record whose stored
\* punchOut is null, the record's punchIn is replaced, punchOut stays null,
\* metrics stays null, and no daily summary is created, changed or deleted.
C25_EditOpenPair ==
    [][\A t \in Tasks :
         EditOpenStep(t) =>
             /\ dailySummary' = dailySummary
             /\ task'[t].pc = "idle" =>
                   /\ task'[t].result = "ok"
                   /\ attendance'[task'[t].id].punchIn = task'[t].argIn
                   /\ attendance'[task'[t].id].punchOut = NULL
                   /\ attendance'[task'[t].id].metrics = NullMetrics
                   /\ \A id \in DOMAIN attendance' \ {task'[t].id} :
                         /\ id \in DOMAIN attendance
                         /\ attendance'[id] = attendance[id]]_vars

\* editPunch has moved the punchIn of an open record while a daily summary
\* of the user exists
C25_Witness ==
    /\ task[1].op = "editPunch" /\ task[1].pc = "idle"
    /\ task[1].result = "ok"
    /\ task[1].argIn # NULL /\ task[1].argOut = NULL
    /\ task[1].data.punchOut = NULL
    /\ task[1].argIn # task[1].data.punchIn
    /\ attendance[task[1].id].punchIn = task[1].argIn
    /\ attendance[task[1].id].punchOut = NULL
    /\ \E wd \in WorkDates :
          docExists(dailySummary, summaryId(task[1].data.uid, wd))

\* C26: a successful assignSchedule(uid, ...) changes only the user
\* document of uid, its schedule and its timezone as far as they were given:
\* no attendance record and no daily summary changes, so every record closed
\* before the call keeps the metrics computed against the earlier schedule.
C26_AssignNotRetroactive ==
    [][\A t \in Tasks :
         (task'[t] # task[t] /\ task'[t].op = "assignSchedule") =>
             LET uid == task'[t].uid
                 given == task'[t].updates
                 done == task'[t].pc = "idle" /\ task'[t].result = "ok"
             IN  /\ attendance' = attendance
                 /\ dailySummary' = dailySummary
                 /\ \A other \in Users \ {uid} : users'[other] = users[other]
                 /\ users'[uid].exists = users[uid].exists
                 /\ done =>
                       /\ users'[uid].schedule =
                             IF given.schedule # NoDoc
                             THEN given.schedule ELSE users[uid].schedule
                       /\ users'[uid].timezone =
                             IF given.timezone # ""
                             THEN given.timezone ELSE users[uid].timezone
                 /\ ~done => users'[uid] = users[uid]]_vars

\* a schedule of 08:00 to 17:00 has been assigned to a user whose closed
\* record keeps the metrics of the 09:00 to 18:00 schedule
C26_Witness ==
    /\ task[1].op = "assignSchedule" /\ task[1].pc = "idle"
    /\ task[1].result = "ok"
    /\ users[task[1].uid].schedule = [start |-> HHMM(8, 0), end |-> HHMM(17, 0)]
    /\ \E id \in DOMAIN attendance :
          LET r == attendance[id]
          IN  /\ r.uid = task[1].uid
              /\ isInstant(r.punchOut) /\ hasMetrics(r)
              /\ r.metrics = computeMetrics(r.punchIn, r.punchOut, DefaultSchedule)
              /\ r.metrics # computeMetrics(r.punchIn, r.punchOut,
                                            users[task[1].uid].schedule)
              /\ docExists(dailySummary, summaryId(r.uid, r.metrics.workDate))

\* C27: editPunch and deletePunch on a punch id that does not exist fail
\* with 'Punch record not found' and leave every attendance record and every
\* daily summary unchanged.
C27_MissingPunchRejected ==
    [][\A t \in Tasks :
         (/\ task[t].pc = "idle" /\ task'[t] # task[t]
          /\ task'[t].op \in {"editPunch", "deletePunch"}
          /\ ~docExists(attendance, task'[t].id)) =>
             /\ task'[t].pc = "idle"
             /\ task'[t].result = "Punch record not found"
             /\ attendance' = attendance
             /\ dailySummary' = dailySummary]_vars

\* deletePunch of an id the store never handed out has failed, next to a
\* closed record and its daily summary
C27_Witness ==
    /\ task[1].op = "deletePunch" /\ task[1].pc = "idle"
    /\ task[1].result = ErrPunchNotFound
    /\ ~docExists(attendance, task[1].id)
    /\ \E id \in DOMAIN attendance :
          /\ isInstant(attendance[id].punchOut) /\ hasMetrics(attendance[id])
          /\ docExists(dailySummary,
                       summaryId(attendance[id].uid,
                                 attendance[id].metrics.workDate))

\* a request has left the access gate: answered, or handed to its handler
GateDone(t) == task[t].pc = "idle" /\ task[t].op \in DOMAIN RouteRoles

\* the header of the request starts with 'Bearer ' and the verification of
\* its token succeeded
TokenAccepted(t) ==
    /\ Len(task[t].authorization) >= 7
    /\ \A i \in 1..7 : task[t].authorization[i] = Bearer[i]
    /\ task[t].verify \in DecodedTokens

\* the role of the verified token, a missing role being 'user', is in the
\* list of roles the route allows
RoleAllowed(t) ==
    LET role == IF "role" \in DOMAIN task[t].verify
                THEN task[t].verify.role ELSE "user"
    IN  role \in {RouteRoles[task[t].op][i] :
                    i \in 1..Len(RouteRoles[task[t].op])}

\* C28: a request reaches a protected handler only if its Authorization
\* header starts with 'Bearer ' and token verification succeeded, and a
\* handler behind requireRole only if the token's role is also in the
\* allowed list, a missing role being 'user'; in every other case the
\* response is 401 or 403 and the rejecting middleware never calls next.
C28_AccessGate ==
    \A t \in Tasks :
        GateDone(t) =>
            LET guarded == RouteRoles[task[t].op] # <<>>
                admitted == TokenAccepted(t) /\ (guarded => RoleAllowed(t))
            IN  /\ task[t].result = "handler" <=> admitted
                /\ "authenticate" \in task[t].nextCalls <=> TokenAccepted(t)
                /\ "requireRole" \in task[t].nextCalls <=>
                      (guarded /\ admitted)
                /\ admitted => task[t].status = 0
                /\ ~TokenAccepted(t) => task[t].status = 401
                /\ (TokenAccepted(t) /\ ~admitted) => task[t].status = 403

\* a verified token without a role claim was answered 403 on an admin route
\* while a superadmin reached the handler of the grant-admin route
C28_Witness ==
    /\ GateDone(1) /\ GateDone(2)
    /\ task[1].op = "admin" /\ task[1].verify = [uid |-> "u1"]
    /\ task[1].status = 403 /\ task[1].nextCalls = {"authenticate"}
    /\ task[2].op = "grantAdmin"
    /\ task[2].verify = [uid |-> "u1", role |-> "superadmin"]
    /\ task[2].result = "handler"
    /\ task[2].nextCalls = {"authenticate", "requireRole"}

\* the step of punchOut that writes the daily summary
UpsertStep(t) ==
    /\ task[t].pc = "punchOut:summaryWrite"
    /\ task'[t].pc = "idle" /\ task'[t].op = "punchOut"

\* C29: when punchOut closes a record for a (uid, workDate) that already has
\* a daily summary, the new summary's regular, overtime, night-differential
\* and total hours are the previous values plus the record's, lateMinutes is
\* the previous value, undertimeMinutes is the record's value, and punches
\* is the previous list with the new entry appended last; when no summary
\* exists, one is created holding exactly the record's metrics and a
\* one-element punches list.
C29_UpsertStep ==
    [][\A t \in Tasks :
         UpsertStep(t) =>
             LET r == attendance[task[t].id]
                 m == r.metrics
                 sid == <<r.uid, m.workDate>>
                 entry == [attendanceId |-> task[t].id,
                           punchIn |-> r.punchIn, punchOut |-> r.punchOut]
                 new == dailySummary'[sid]
             IN  /\ task'[t].result = "ok"
                 /\ sid \in DOMAIN dailySummary'
                 /\ \A other \in DOMAIN dailySummary' \ {sid} :
                       /\ other \in DOMAIN dailySummary
                       /\ dailySummary'[other] = dailySummary[other]
                 /\ new.uid = r.uid /\ new.workDate = m.workDate
                 /\ new.undertimeMinutes = m.undertimeMinutes
                 /\ IF sid \in DOMAIN dailySummary
                    THEN LET old == dailySummary[sid]
                         IN  /\ new.regularHours =
                                   old.regularHours + m.regularHours
                             /\ new.overtimeHours =
                                   old.overtimeHours + m.overtimeHours
                             /\ new.nightDiffHours =
                                   old.nightDiffHours + m.nightDiffHours
                             /\ new.totalWorkedHours =
                                   old.totalWorkedHours + m.totalWorkedHours
                             /\ new.lateMinutes = old.lateMinutes
                             /\ new.punches = old.punches \o <<entry>>
                    ELSE /\ new.regularHours = m.regularHours
                         /\ new.overtimeHours = m.overtimeHours
                         /\ new.nightDiffHours = m.nightDiffHours
                         /\ new.totalWorkedHours = m.totalWorkedHours
                         /\ new.lateMinutes = m.lateMinutes
                         /\ new.punches = <<entry>>]_vars

\* a second punch of the day has been added to a summary that was 30
\* minutes late and short of the schedule end: late kept, undertime replaced
C29_Witness ==
    LET tk == task[1] IN
    /\ tk.pc = "idle" /\ tk.op = "punchOut" /\ tk.result = "ok"
    /\ tk.metrics.lateMinutes > 30
    /\ tk.metrics.undertimeMinutes = 0
    /\ docExists(dailySummary, summaryId(tk.uid, tk.metrics.workDate))
    /\ LET s == dailySummary[summaryId(tk.uid, tk.metrics.workDate)]
       IN  /\ Len(s.punches) = 2
           /\ s.punches[2].attendanceId = tk.id
           /\ s.lateMinutes = 30
           /\ s.undertimeMinutes = 0
           /\ s.regularHours > tk.metrics.regularHours

\* C30: after every rebuildDailySummary that finds at least one record, the
\* punches list of the written summary is in ascending punchIn order,
\* whatever order the store returns the records in.
C30_RebuildPunchesSorted ==
    [][\A t \in Tasks :
         (/\ task[t].pc = "rebuild:write" /\ task'[t].pc # "rebuild:write"
          /\ Len(task[t].dayRecords) > 0) =>
             LET sid == summaryId(task[t].uid, task[t].workDate)
                 punches == dailySummary'[sid].punches
             IN  /\ sid \in DOMAIN dailySummary'
                 /\ Len(punches) = Len(task[t].dayRecords)
                 /\ \A i \in 1..Len(punches), j \in 1..Len(punches) :
                       i < j => punches[i].punchIn <= punches[j].punchIn]_vars

\* the number of entries of a punches list that name a record
TimesListed(punches, id) ==
    Cardinality({i \in 1..Len(punches) : punches[i].attendanceId = id})

\* C31: in every reachable state each attendance record id appears at most
\* once in a daily summary's punches list, also when two punchOut requests
\* of the same user interleave so that both read the same open record
\* before either closes it.
C31_NoDoubleCounting ==
    \A sid \in DOMAIN dailySummary : \A id \in idPool :
        TimesListed(dailySummary[sid].punches, id) <= 1

\* C31 as amended: every punchOut request that writes the daily summary
\* lists the record it closed once more than the summary it read did, and
\* adds the record's hours once to the totals it read.
C31_EachPunchOutCountsOnce ==
    [][\A t \in Tasks :
         (UpsertStep(t) /\ task'[t].result = "ok") =>
             LET tk == task[t]
                 m == tk.metrics
                 new == dailySummary'[summaryId(tk.uid, m.workDate)]
                 read == IF tk.prev = NoDoc
                         THEN [ punches |-> <<>>, regularHours |-> 0,
                                overtimeHours |-> 0, nightDiffHours |-> 0,
                                totalWorkedHours |-> 0 ]
                         ELSE tk.prev
             IN  /\ TimesListed(new.punches, tk.id)
                       = TimesListed(read.punches, tk.id) + 1
                 /\ Len(new.punches) = Len(read.punches) + 1
                 /\ new.regularHours = read.regularHours + m.regularHours
                 /\ new.overtimeHours = read.overtimeHours + m.overtimeHours
                 /\ new.nightDiffHours = read.nightDiffHours + m.nightDiffHours
                 /\ new.totalWorkedHours
                       = read.totalWorkedHours + m.totalWorkedHours]_vars

\* two punchOut requests have closed the same record, which the summary now
\* lists twice
C31_Witness ==
    /\ \A t \in Tasks :
          /\ task[t].pc = "idle" /\ task[t].op = "punchOut"
          /\ task[t].result = "ok"
    /\ task[1].id = task[2].id
    /\ \E sid \in DOMAIN dailySummary :
          TimesListed(dailySummary[sid].punches, task[1].id) = 2

\* a punchOut has closed a record whose punchIn an administrator had moved
\* before the punchIn of a record already closed on the same work date
ClosedAfterMove ==
    LET tk == task[1] IN
    /\ tk.pc = "idle" /\ tk.op = "punchOut" /\ tk.result = "ok"
    /\ attendance[tk.id].adminEdited
    /\ \E o \in DayIds(tk.uid, tk.metrics.workDate) \ {tk.id} :
          /\ attendance[tk.id].punchIn < attendance[o].punchIn
          /\ attendance[o].punchOut <= tk.now

\* C32: if an administrator edits the punchIn of a still-open record to an
\* instant earlier than the punchIn of a record already closed on the same
\* work date, and the user then punches out, the resulting daily summary's
\* lateMinutes is the lateMinutes of the earliest punchIn among the day's
\* closed records.
C32_LateAfterMovedPunchIn ==
    ClosedAfterMove =>
        LET tk == task[1]
            sid == summaryId(tk.uid, tk.metrics.workDate)
        IN  /\ docExists(dailySummary, sid)
            /\ \E id \in EarliestIn(DayIds(tk.uid, tk.metrics.workDate)) :
                  dailySummary[sid].lateMinutes
                      = attendance[id].metrics.lateMinutes

\* a span of milliseconds in hours with two decimals, in units of 1/10000
\* hour, halves rounded up
HoursOf(ms) == ((ms + 18000) \div 36000) * 100

\* the punchOut of a call capped at the last millisecond of the work date
CappedOut(t) ==
    IF task[t].argOut >= LocalMidnightAfter(task[t].argIn)
    THEN LocalMidnightAfter(task[t].argIn) - 1
    ELSE task[t].argOut

MinutesOf(ms) == (ms + 30000) \div 60000

EarlyMs(pi, po, schedStart) ==
    LET upTo == IF po <= schedStart THEN po ELSE schedStart
    IN  IF upTo > pi THEN upTo - pi ELSE 0

Shared(aStart, aEnd, bStart, bEnd) ==
    LET from == IF aStart >= bStart THEN aStart ELSE bStart
        to == IF aEnd <= bEnd THEN aEnd ELSE bEnd
    IN  IF to > from THEN to - from ELSE 0

LocalTimeOfDay(t) == (t + MANILA_OFFSET_MS) % MS_PER_DAY

StatusReturns(t) ==
    /\ task[t].pc = "status:summary"
    /\ task'[t].pc = "idle"

C37_StatusDateMismatch ==
    [][\A t \in Tasks :
         StatusReturns(t) =>
           LET now == task'[t].now
               localDate == manilaDateString(now)
               looked == IF LocalTimeOfDay(now) < 8 * MS_PER_HOUR
                         THEN localDate - 1 ELSE localDate
               sid == summaryId(task[t].uid, looked)
           IN  task'[t].response.todaySummary =
                 IF sid \in DOMAIN dailySummary
                 THEN [id |-> sid, data |-> dailySummary[sid]]
                 ELSE NoDoc]_vars

C37_Witness ==
    /\ task[1].op = "getPunchStatus" /\ task[1].pc = "idle"
    /\ task[1].response.todaySummary = NoDoc
    /\ task[1].now = Now
    /\ summaryId(task[1].uid, manilaDateString(Now)) \in DOMAIN dailySummary
    /\ \E i \in 1..Len(dailySummary[summaryId(task[1].uid,
                                     manilaDateString(Now))].punches) :
          LocalTimeOfDay(
            dailySummary[summaryId(task[1].uid, manilaDateString(Now))]
              .punches[i].punchOut) < 8 * MS_PER_HOUR

\* C38 (as stated): a weekly call with startDate and/or endDate omitted passes
\* the Monday of the UTC week containing today as startDate and that Monday
\* + 6 days as endDate, with startDate <= today <= endDate.
WeeklyCalled ==
    /\ task[1].op \in {"getWeeklySummary", "weeklyReport"}
    /\ task[1].pc = "idle"

MondayOf(today) ==
    CHOOSE d \in (isoDate(today) - 6)..isoDate(today) : getUTCDay(d * MS_PER_DAY) = 1

C38_DefaultWeek ==
    (WeeklyCalled /\ (task[1].argIn = NULL \/ task[1].argOut = NULL)) =>
        /\ task[1].range.startDate = MondayOf(task[1].now)
        /\ task[1].range.endDate = task[1].range.startDate + 6
        /\ task[1].range.startDate <= isoDate(task[1].now)
        /\ isoDate(task[1].now) <= task[1].range.endDate

\* C38 (amended): each parameter is defaulted on its own.  An omitted
\* startDate becomes the Monday of the UTC week containing today (Sunday
\* being the 7th day of its week), an omitted endDate becomes that Monday
\* + 6 days, and a parameter that was supplied is passed as it was given; so
\* with both omitted the range is Monday .. Monday + 6 and contains today.
C38_DefaultWeekEach ==
    WeeklyCalled =>
        /\ task[1].range.startDate =
              IF task[1].argIn = NULL THEN MondayOf(task[1].now)
              ELSE task[1].argIn
        /\ task[1].range.endDate =
              IF task[1].argOut = NULL THEN MondayOf(task[1].now) + 6
              ELSE task[1].argOut
        /\ (task[1].argIn = NULL /\ task[1].argOut = NULL) =>
              /\ task[1].range.endDate = task[1].range.startDate + 6
              /\ task[1].range.startDate <= isoDate(task[1].now)
              /\ isoDate(task[1].now) <= task[1].range.endDate

\* a call on a Sunday with both parameters omitted
C38_Witness ==
    /\ WeeklyCalled
    /\ task[1].argIn = NULL /\ task[1].argOut = NULL
    /\ getUTCDay(task[1].now) = 0
    /\ task[1].range.endDate = isoDate(task[1].now)
    /\ task[1].range.startDate = isoDate(task[1].now) - 6

\* C39 (as stated): the punch lifecycle is one-way in every step of every
\* run.  No step sets a record's punchOut back to null; a record leaves the
\* open state only by being closed (punchOut, or editPunch supplying
\* punchOut) or voided (cancelOpenPunch); and a closed record stays closed for
\* as long as it exists.
isOpen(r) == r.punchOut = NULL
isClosed(r) == isInstant(r.punchOut)
isVoided(r) == r.punchOut = VOIDED

ClosesRecord(t, id) ==
    /\ task[t].id = id
    /\ \/ task[t].pc = "punchOut:update"
       \/ task[t].pc = "edit:update" /\ task[t].argOut # NULL

VoidsRecord(t, id) ==
    /\ task[t].id = id
    /\ task[t].pc = "cancel:update"

OneWay(before, after, id) ==
    /\ ~isOpen(before) => ~isOpen(after)
    /\ isClosed(before) => isClosed(after)
    /\ (isOpen(before) /\ isClosed(after)) =>
          \E t \in Tasks : ClosesRecord(t, id) /\ task'[t] # task[t]
    /\ (isOpen(before) /\ isVoided(after)) =>
          \E t \in Tasks : VoidsRecord(t, id) /\ task'[t] # task[t]

C39_LifecycleOneWay ==
    [][\A id \in DOMAIN attendance \cap DOMAIN attendance' :
         OneWay(attendance[id], attendance'[id], id)]_vars

\* C39 (amended): every write of an existing record is one-way with respect
\* to the record as the writing call read it: a call that read the record
\* closed leaves it closed, a call that read it closed or voided never
\* writes null, and only punchOut or editPunch with a punchOut closes, and
\* only cancelOpenPunch voids, a record read open.  With calls served one at
\* a time the record read is the record stored, and the lifecycle is one-way.
C39_WritesAreOneWay ==
    [][\A t \in Tasks : \A id \in DOMAIN attendance \cap DOMAIN attendance' :
         (task'[t] # task[t] /\ attendance'[id] # attendance[id]) =>
             /\ task[t].id = id
             /\ OneWay(task[t].data, attendance'[id], id)
             /\ task[t].data = attendance[id] =>
                   OneWay(attendance[id], attendance'[id], id)]_vars

\* an editPunch without punchOut that read the record open has written it
\* after a punchOut closed it: the record is open again, with metrics
C39_Witness ==
    \E t \in Tasks :
        /\ task[t].op = "editPunch" /\ task[t].pc = "idle"
        /\ task[t].result = "ok"
        /\ task[t].argOut = NULL
        /\ isOpen(task[t].data)
        /\ docExists(attendance, task[t].id)
        /\ isOpen(attendance[task[t].id])
        /\ hasMetrics(attendance[task[t].id])

\* C40: every step of a punchIn, punchOut or cancelOpenPunch call made with
\* caller uid A leaves the attendance records and daily summaries of every
\* other user as they were, creating, changing and deleting none of them, and
\* what the call reads and acts on is A's own: the open-punch checks answer
\* from A's open records alone, the record closed or voided is A's, and the
\* summary read is A's.  Steps of another user's calls therefore leave A's
\* documents, and what A's calls make of them, unchanged.
EmployeeOps == {"punchIn", "punchOut", "cancelOpenPunch"}

RecordsOf(att, u) ==
    [id \in {i \in DOMAIN att : att[i].uid = u} |-> att[id]]

SummariesOf(sum, u) ==
    [k \in {s \in DOMAIN sum : s[1] = u \/ sum[s].uid = u} |-> sum[k]]

OthersUntouched(A) ==
    /\ \A B \in Users \ {A} :
          /\ RecordsOf(attendance', B) = RecordsOf(attendance, B)
          /\ SummariesOf(dailySummary', B) = SummariesOf(dailySummary, B)
    /\ users' = users

ReadsOwn(t, A) ==
    /\ (task[t].pc = "idle" /\ task'[t].op = "punchIn") =>
          IF OpenIds(A) # {}
          THEN task'[t].pc = "idle" /\ task'[t].result = ErrOpenPunch
          ELSE task'[t].pc = "punchIn:add"
    /\ (task[t].pc = "idle" /\ task'[t].op = "punchOut") =>
          IF OpenIds(A) = {}
          THEN task'[t].pc = "idle" /\ task'[t].result = ErrNoOpenPunch
          ELSE /\ task'[t].id \in OpenIds(A)
               /\ task'[t].data = attendance[task'[t].id]
    /\ task'[t].pc = "cancel:update" => task'[t].data.uid = A
    /\ task'[t].pc = "punchOut:summaryWrite" =>
          task'[t].prev = NoDoc \/ task'[t].prev.uid = A

C40_CrossUserIsolation ==
    [][\A t \in Tasks :
         (task'[t] # task[t] /\ task'[t].op \in EmployeeOps) =>
             /\ OthersUntouched(task'[t].uid)
             /\ ReadsOwn(t, task'[t].uid)]_vars

\* u2 punched in and out between the punchIn and the punchOut of u1, and
\* both have the summary of their own punch only
C40_Witness ==
    /\ task[1].op = "punchOut" /\ task[1].uid = "u1"
    /\ task[1].pc = "idle" /\ task[1].result = "ok"
    /\ \E a \in DOMAIN attendance, b \in DOMAIN attendance :
          /\ attendance[a].uid = "u1" /\ attendance[b].uid = "u2"
          /\ isInstant(attendance[a].punchOut)
          /\ isInstant(attendance[b].punchOut)
          /\ attendance[a].punchIn < attendance[b].punchIn
          /\ attendance[b].punchOut < attendance[a].punchOut
          /\ \E sa \in DOMAIN dailySummary, sb \in DOMAIN dailySummary :
                /\ sa[1] = "u1" /\ sb[1] = "u2"
                /\ Len(dailySummary[sa].punches) = 1
                /\ dailySummary[sa].punches[1].attendanceId = a
                /\ Len(dailySummary[sb].punches) = 1
                /\ dailySummary[sb].punches[1].attendanceId = b

====
